---- MODULE Spec2Model ----
(***************************************************************************)
(* Session-multiplexed gateway of azuretls-api: the Session Registry       *)
(* (DefaultSessionManager), the execution adapter (SessionController),     *)
(* the REST admission gate (ConcurrentRequestLimiter) and the WebSocket    *)
(* connection lifecycle (WSHandler, ConnectionHandler, ConnectionManager). *)
(*                                                                         *)
(* Every REST request and every WebSocket connection is a one-shot         *)
(* process.  A step is one critical section of the code (a call that runs  *)
(* under sm.mu, cm.mu or conn.mu) or one external call (engine, socket).   *)
(***************************************************************************)
EXTENDS Integers, FiniteSets, Sequences, TLC

\* ---------------------------------------------------------------- bounds
NumReqs == 3          \* REST requests of one run
NumIDs == 2           \* distinct session identifiers GenerateSessionID can return
MaxConcurrent == 2    \* config.MaxConcurrentRequests of the run
NumConns == 1         \* WebSocket connections of one run
MaxMsgs == 3          \* inbound WebSocket messages of one run, all connections together
NumMsgIDs == 1        \* distinct non-empty correlation IDs a client uses
MaxCookies == 2       \* cookies of one engine response
MaxSameSite == 5      \* same-site codes run from -MaxSameSite to MaxSameSite
MaxHeaders == 1       \* headers of one logical request, in the list and in the map
NumGoroutines == 3    \* goroutines that use the mutexes at the same time

Reqs == 1..NumReqs
IDs == 1..NumIDs
Conns == 1..NumConns
EmptyID == 0          \* the empty string "" used as "no session ID"
NoSession == 0        \* a nil *azuretls.Session
\* WSMessage.ID values; EmptyID is the absent (`omitempty`) ID
MsgIDs == 0..NumMsgIDs
\* the session objects a run can build: one per REST request, one per message
Handles == 1..(NumReqs + MaxMsgs)

\* websocket/connection.go: pongWait and pingPeriod, in seconds
PongWait == 60
PingPeriod == (PongWait * 9) \div 10
\* WSConnection.ReadJSON: the read deadline it sets before every read, in seconds
ReadDeadline == 60
\* the clock's granule: one tenth of the window, which divides both periods
TimeUnit == PongWait \div 10

\* HTTP status codes written by the REST layer
StatusOK == 200
StatusCreated == 201
StatusNoContent == 204
StatusBadRequest == 400
StatusUnsupportedMediaType == 415
StatusNotFound == 404
StatusTooManyRequests == 429
StatusInternalServerError == 500

VARIABLES
    sessions,     \* sm.sessions: session ID -> session object (a handle 1, 2, ...)
    objs,         \* per session object: [made, closes]: built and registered; times closed
    semaphore,    \* number of tokens in the limiter's buffered channel
    req,          \* per REST request: its position and locals
    conn,         \* per WebSocket connection: the WSConnection and its two pumps
    connections,  \* cm.connections: the connections registered (by connection ID)
    sessionConns, \* cm.sessionConns: session ID -> connection
    nread,        \* inbound WebSocket messages read so far
    clockOn,      \* TRUE in runs that measure time; FALSE: timers fire at any moment
    server,       \* Server: "running", "cancelled" (Stop), "shutdown", "cleaned";
                  \* "crashed" once an unrecovered panic has ended the process
    adapter,      \* Execution Adapter: the logical request being executed and the
                  \* engine response being normalised (cookies: the engine's
                  \* same-site codes, out: the strings written for them)
    locks         \* the mutexes: [owner: per mutex the goroutine that holds it,
                  \* prog: per goroutine the lock and unlock calls it has still to make]

restVars == <<sessions, objs, semaphore, req>>
connVars == <<conn, connections, sessionConns, nread, clockOn, server>>
vars == <<sessions, objs, semaphore, req, conn, connections, sessionConns, nread, clockOn, server,
         adapter, locks>>

\* ------------------------------------------------------- Session Registry
Exists(m, id) == id \in DOMAIN m

\* `if sessionID == "" { sessionID = common.GenerateSessionID() }`
EffectiveID(id, gen) == IF id = EmptyID THEN gen ELSE id

\* a map write that starts from an empty map: entries put earlier are lost
MapPutLosing(m, id, o) == [k \in {id} |-> o]

\* sm.sessions[sessionID] = session
MapPut(m, id, o) == [k \in (DOMAIN m) \cup {id} |-> IF k = id THEN o ELSE m[k]]

\* delete(sm.sessions, sessionID)
MapDelete(m, id) == [k \in (DOMAIN m) \ {id} |-> m[k]]

Range(m) == {m[k] : k \in DOMAIN m}

\* azuretls.NewSession(): a fresh object.  A REST request builds at most one
\* session, so the request's number serves as the object's handle.
NewSession(r) == r

\* DefaultSessionManager.CreateSession: the error it returns ("" for nil)
CreateSessionErr(m, id) == IF Exists(m, id) THEN "already exists" ELSE ""

\* DefaultSessionManager.CreateSession: the map it leaves
CreateSessionMap(m, id, o) == IF Exists(m, id) THEN m ELSE MapPut(m, id, o)

\* DefaultSessionManager.CreateSessionWithConfig: proxyOK is the outcome of
\* session.SetProxy(config.Proxy) (TRUE also when no proxy is configured)
CreateSessionWithConfigErr(m, id, proxyOK) ==
    IF Exists(m, id) THEN "already exists"
    ELSE IF ~proxyOK THEN "failed to set proxy"
    ELSE ""

\* a create with no `if _, exists := sm.sessions[sessionID]` check
CreateSessionWithConfigMapUnchecked(m, id, o, proxyOK) ==
    IF ~proxyOK THEN m ELSE MapPut(m, id, o)

\* a create that puts the new session into the map before it configures it
CreateSessionWithConfigMapEarly(m, id, o, proxyOK) ==
    IF Exists(m, id) THEN m ELSE MapPut(m, id, o)

\* DefaultSessionManager.CreateSessionWithConfig: the map it leaves.  The entry
\* is written after the configuration, and not at all when SetProxy fails.
CreateSessionWithConfigMap(m, id, o, proxyOK) ==
    IF Exists(m, id) \/ ~proxyOK THEN m ELSE MapPut(m, id, o)

\* a delete that reports success whatever the map holds
DeleteSessionErrUnchecked(m, id) == ""

\* DefaultSessionManager.DeleteSession
DeleteSessionErr(m, id) == IF Exists(m, id) THEN "" ELSE "not found"

DeleteSessionMap(m, id) == IF Exists(m, id) THEN MapDelete(m, id) ELSE m

\* the session object o has been built and put into the map
Register(os, o) == [os EXCEPT ![o].made = TRUE]

\* session.Close() on object o
CloseObj(os, o) == [os EXCEPT ![o].closes = @ + 1]

\* a delete that drops the map entry and leaves the session open
DeleteSessionObjsLeavesOpen(m, os, id) == os

\* the objects after DeleteSession(id): the registered session is closed
DeleteSessionObjs(m, os, id) == IF Exists(m, id) THEN CloseObj(os, m[id]) ELSE os

\* a sweep that closes the sessions and leaves their entries in the map
CleanupSessionsMapKeeps(m) == m

\* DefaultSessionManager.CleanupSessions: the map it leaves
CleanupSessionsMap(m) == <<>>

\* DefaultSessionManager.CleanupSessions: every session in the map is closed
CleanupSessionsObjs(m, os) ==
    [o \in DOMAIN os |-> IF o \in Range(m) THEN [os[o] EXCEPT !.closes = @ + 1] ELSE os[o]]

\* SessionController.DeleteSession: "" is refused before the registry is asked
ControllerDeleteErr(m, id) ==
    IF id = EmptyID THEN "session ID required" ELSE DeleteSessionErr(m, id)

\* a lookup whose failure is not reported to the caller
ControllerGetErrIgnored(m, id) == ""

\* SessionController.GetSession
ControllerGetErr(m, id) ==
    IF id = EmptyID THEN "session ID required"
    ELSE IF ~Exists(m, id) THEN "session not found"
    ELSE ""

\* DefaultSessionManager.GetSession: the session, nil when there is none
GetSession(m, id) == IF Exists(m, id) THEN m[id] ELSE NoSession

\* SessionController.GetSession: the session it hands to the caller
ControllerGet(m, id) == IF ControllerGetErr(m, id) = "" THEN GetSession(m, id) ELSE NoSession

\* ------------------------------------------------------- Execution Adapter
\* Outcomes of executeRequestWithSession.  "reject": the request shape is
\* refused before session.Do; "ok", "fail", "panic": what session.Do does.
Outcomes == {"reject", "ok", "fail", "panic"}

\* serverResp.Error of executeRequestWithSession
ExecError(outcome) ==
    CASE outcome = "reject" -> "invalid request"
      [] outcome = "fail" -> "engine error"
      [] OTHER -> ""


\* the values cookie.SameSite can have: the four modes and numbers around them
SameSiteCodes == (0 - MaxSameSite)..MaxSameSite

\* a mapping whose switch falls back to "None"
SameSiteOrNone(code) ==
    CASE code = 1 -> "Default"
      [] code = 2 -> "Lax"
      [] code = 3 -> "Strict"
      [] OTHER -> "None"

\* executeRequestWithSession: `switch cookie.SameSite`; there is no default
\* branch, so the field keeps its zero value, the empty string
SameSite(code) ==
    CASE code = 1 -> "Default"
      [] code = 2 -> "Lax"
      [] code = 3 -> "Strict"
      [] code = 4 -> "None"
      [] OTHER -> ""

\* what session.Do returned: how IsBinaryContent judges the body ("nil" when
\* resp.Body is nil), whether resp.Header is set, and the same-site codes of the
\* cookies (the cookies carry distinct names, so resp.Cookies and
\* resp.HttpResponse.Cookies() are equally long)
NoEngineResponse == [body |-> "nil", hasHeader |-> FALSE, cookies |-> <<>>]

\* no request is being executed and no response is being normalised
NoResponse ==
    [cookies |-> <<>>, out |-> <<>>, pc |-> "idle",
     body |-> "", bodyB64 |-> "nil", ordered |-> 0, keys |-> <<>>,
     optProxy |-> "", optBrowser |-> "", proxy |-> "", browser |-> "",
     sent |-> "", calls |-> 0, err |-> "", resp |-> NoEngineResponse,
     status |-> FALSE, outBody |-> "", outB64 |-> FALSE, outHeaders |-> FALSE]

\* the cookie lists an engine response can carry
CookieLists == UNION {[1..n -> SameSiteCodes] : n \in 0..MaxCookies}

\* executeRequestWithSession: one turn of the loop over the response's cookies
ConvertCookie ==
    /\ Len(adapter.out) < Len(adapter.cookies)
    /\ adapter' = [adapter EXCEPT
                     !.out = Append(@, SameSite(adapter.cookies[Len(adapter.out) + 1]))]
    /\ UNCHANGED <<sessions, objs, semaphore, req, conn, connections, sessionConns,
                   nread, clockOn, server, locks>>

\* serverReq.Body: "" when the field is absent; serverReq.BodyB64: nil when absent
TextBodies == {"", "text"}
B64Bodies == {"nil", "set"}

\* the dynamic types a value of serverReq.Headers.Values can have: string,
\* []string, anything else
HeaderValueTypes == {"string", "strings", "other"}

\* serverReq.Headers: the value types of the map's keys, in the order of Keys
HeaderMaps == UNION {[1..n -> HeaderValueTypes] : n \in 0..MaxHeaders}

\* options.Proxy / session.Proxy and options.Browser / session.Browser
Proxies == {"", "proxyA", "proxyB"}
Browsers == {"chrome", "firefox"}

\* the cookie lists of the responses, with the modes unset (0) and Lax (2)
EngineCookieLists == {l \in CookieLists : \A i \in DOMAIN l : l[i] \in {0, 2}}

BodyKinds == {"nil", "text", "binary"}

\* a check that lets every request through
BodyConflictNever(body, bodyB64) == FALSE

\* executeRequestWithSession: `serverReq.Body != "" && serverReq.BodyB64 != nil`
BodyConflict(body, bodyB64) == body # "" /\ bodyB64 # "nil"

\* executeRequestWithSession: the header set that goes into azureReq
HeadersUsed(ordered, keys) ==
    IF ordered > 0 THEN "ordered"
    ELSE IF Len(keys) > 0 THEN "map"
    ELSE "none"

\* executeRequestWithSession: the map is walked only if there is no ordered
\* list, and a value that is neither string nor []string is an error
HeaderTypeError(ordered, keys) ==
    /\ HeadersUsed(ordered, keys) = "map"
    /\ \E i \in DOMAIN keys : keys[i] = "other"

\* applyRequestOptions: whether sess.SetProxy(options.Proxy) is called
NeedsSetProxy(optProxy, proxy) == optProxy # "" /\ (proxy = "" \/ proxy # optProxy)

\* applyRequestOptions: sess.Browser when it returns nil
AppliedBrowser(optBrowser, browser) ==
    IF optBrowser # "" /\ browser # optBrowser THEN optBrowser ELSE browser

\* executeRequestWithSession up to the engine call: the body check, the
\* headers and applyRequestOptions
ExecBuildRequest ==
    /\ adapter.pc = "start"
    /\ \E proxyOK \in BOOLEAN :
         adapter' =
            IF BodyConflict(adapter.body, adapter.bodyB64)
            THEN [adapter EXCEPT !.pc = "returned",
                                 !.err = "Both body and body_b64 cannot be set"]
            ELSE IF HeaderTypeError(adapter.ordered, adapter.keys)
            THEN [adapter EXCEPT !.pc = "returned", !.err = "Invalid header value type"]
            ELSE IF NeedsSetProxy(adapter.optProxy, adapter.proxy) /\ ~proxyOK
            THEN [adapter EXCEPT !.pc = "returned",
                                 !.err = "Failed to apply request options"]
            ELSE [adapter EXCEPT
                    !.pc = "do",
                    !.sent = HeadersUsed(adapter.ordered, adapter.keys),
                    !.proxy = IF NeedsSetProxy(adapter.optProxy, adapter.proxy)
                              THEN adapter.optProxy ELSE @,
                    !.browser = AppliedBrowser(adapter.optBrowser, @)]
    /\ UNCHANGED <<sessions, objs, semaphore, req, conn, connections, sessionConns,
                   nread, clockOn, server, locks>>

\* executeRequestWithSession: resp, err := session.Do(azureReq)
ExecDo ==
    /\ adapter.pc = "do"
    /\ \E ok \in BOOLEAN, kind \in BodyKinds, hasHeader \in BOOLEAN,
          l \in EngineCookieLists :
         adapter' =
            IF ~ok
            THEN [adapter EXCEPT !.pc = "returned", !.calls = @ + 1,
                                 !.err = "engine error"]
            ELSE [adapter EXCEPT !.pc = "normalize", !.calls = @ + 1,
                    !.resp = [body |-> kind, hasHeader |-> hasHeader, cookies |-> l]]
    /\ UNCHANGED <<sessions, objs, semaphore, req, conn, connections, sessionConns,
                   nread, clockOn, server, locks>>

\* executeRequestWithSession: a body that is not binary is copied as text and
\* the response is returned at once
ReturnsAfterBody(kind) == kind = "text"

\* executeRequestWithSession after session.Do: status, body, headers, and the
\* cookie slice made for the loop
ExecNormalize ==
    /\ adapter.pc = "normalize"
    /\ adapter' =
          IF ReturnsAfterBody(adapter.resp.body)
          THEN [adapter EXCEPT !.pc = "returned", !.status = TRUE, !.outBody = "text"]
          ELSE [adapter EXCEPT !.pc = "cookies", !.status = TRUE,
                  !.outB64 = (adapter.resp.body = "binary"),
                  !.outHeaders = adapter.resp.hasHeader,
                  !.cookies = adapter.resp.cookies]
    /\ UNCHANGED <<sessions, objs, semaphore, req, conn, connections, sessionConns,
                   nread, clockOn, server, locks>>

\* executeRequestWithSession: the loop over the cookies is over, `return serverResp`
ExecReturn ==
    /\ adapter.pc = "cookies"
    /\ Len(adapter.out) = Len(adapter.cookies)
    /\ adapter' = [adapter EXCEPT !.pc = "returned"]
    /\ UNCHANGED <<sessions, objs, semaphore, req, conn, connections, sessionConns,
                   nread, clockOn, server, locks>>

\* ---------------------------------------------------------------- mutexes
\* sm.mu, cm.mu and the mutex of every WSConnection.
\* A read lock is taken as exclusive: no goroutine takes one inside another.
Goroutines == 1..NumGoroutines
SmMu == <<"sm", 0>>
CmMu == <<"cm", 0>>
ConnMu(c) == <<"conn", c>>
Mutexes == {SmMu, CmMu} \cup {ConnMu(c) : c \in Conns}
NoOwner == 0

LockCall(l) == <<[call |-> "Lock", mu |-> l]>>
UnlockCall(l) == <<[call |-> "Unlock", mu |-> l]>>

\* `mu.Lock(); defer mu.Unlock()` around the calls of inner
Section(l, inner) == LockCall(l) \o inner \o UnlockCall(l)

\* DefaultSessionManager: every method locks sm.mu and calls nothing that locks
SessionManagerLocks == Section(SmMu, <<>>)

\* WSConnection.WriteJSON, Close and SetSessionID
WriteJSONLocks(c) == Section(ConnMu(c), <<>>)
CloseLocks(c) == Section(ConnMu(c), <<>>)
SetSessionIDLocks(c) == Section(ConnMu(c), <<>>)

\* ConnectionManager.AddConnection and UpdateSessionMapping
AddConnectionLocks == Section(CmMu, <<>>)
UpdateSessionMappingLocks == Section(CmMu, <<>>)

\* ConnectionManager.RemoveConnection: conn.Close() inside cm.mu when the
\* connection is registered
RemoveConnectionLocks(c, exists) == Section(CmMu, IF exists THEN CloseLocks(c) ELSE <<>>)

\* ConnectionManager.CloseAll: conn.Close() for every connection, inside cm.mu
RECURSIVE CloseEachLocks(_)
CloseEachLocks(n) == IF n = 0 THEN <<>> ELSE CloseEachLocks(n - 1) \o CloseLocks(n)

CloseAllLocks == Section(CmMu, CloseEachLocks(NumConns))

\* handleRequestMessage: GetSession, the engine call, SendResponse or SendError
HandleRequestLocks(c) == SessionManagerLocks \o WriteJSONLocks(c)

\* handleCreateSession: CreateSession, SetSessionID, UpdateSessionMapping, SendResponse
HandleCreateSessionLocks(c) ==
    SessionManagerLocks \o SetSessionIDLocks(c) \o UpdateSessionMappingLocks
        \o WriteJSONLocks(c)

\* a handler that updates the registry while it holds the connection's mutex
HandleDeleteSessionLocksNested(c) ==
    SessionManagerLocks \o Section(ConnMu(c), UpdateSessionMappingLocks) \o WriteJSONLocks(c)

\* handleDeleteSession: DeleteSession, SetSessionID, UpdateSessionMapping, SendSuccess
HandleDeleteSessionLocks(c) ==
    SessionManagerLocks \o SetSessionIDLocks(c) \o UpdateSessionMappingLocks
        \o WriteJSONLocks(c)

\* the end of a connection: readPump's deferred Close, HandleConnection's deferred
\* RemoveConnection, and the goroutine's deferred DeleteSession
TeardownLocks(c) == CloseLocks(c) \o RemoveConnectionLocks(c, TRUE) \o SessionManagerLocks

\* what one goroutine can set out to do: a REST handler or the shutdown sweep
\* (one Session Registry call), a message handler, a heartbeat ping, the start
\* or the end of a connection, RemoveConnection and CloseAll
LockPrograms ==
    {SessionManagerLocks, AddConnectionLocks, CloseAllLocks}
        \cup {HandleRequestLocks(c) : c \in Conns}
        \cup {HandleCreateSessionLocks(c) : c \in Conns}
        \cup {HandleDeleteSessionLocks(c) : c \in Conns}
        \cup {WriteJSONLocks(c) : c \in Conns}
        \cup {TeardownLocks(c) : c \in Conns}
        \cup {RemoveConnectionLocks(c, exists) : c \in Conns, exists \in BOOLEAN}

NoLocks == [owner |-> [l \in Mutexes |-> NoOwner], prog |-> [g \in Goroutines |-> <<>>]]

\* goroutine g sets out on one of the operations
LockBegin(g) ==
    /\ locks.prog[g] = <<>>
    /\ \E p \in LockPrograms : locks' = [locks EXCEPT !.prog[g] = p]
    /\ UNCHANGED <<sessions, objs, semaphore, req, conn, connections, sessionConns,
                   nread, clockOn, server, adapter>>

\* mu.Lock(): g goes on when the mutex is free, and waits while it is not
LockAcquire(g) ==
    /\ locks.prog[g] # <<>>
    /\ Head(locks.prog[g]).call = "Lock"
    /\ locks.owner[Head(locks.prog[g]).mu] = NoOwner
    /\ locks' = [locks EXCEPT !.owner[Head(locks.prog[g]).mu] = g,
                              !.prog[g] = Tail(@)]
    /\ UNCHANGED <<sessions, objs, semaphore, req, conn, connections, sessionConns,
                   nread, clockOn, server, adapter>>

\* mu.Unlock()
LockRelease(g) ==
    /\ locks.prog[g] # <<>>
    /\ Head(locks.prog[g]).call = "Unlock"
    /\ locks' = [locks EXCEPT !.owner[Head(locks.prog[g]).mu] = NoOwner,
                              !.prog[g] = Tail(@)]
    /\ UNCHANGED <<sessions, objs, semaphore, req, conn, connections, sessionConns,
                   nread, clockOn, server, adapter>>

\* ------------------------------------------------------------ REST layer
\* a handler that answers 200 whatever the logical response says
RequestStatusAlwaysOK(err) == StatusOK

\* Handler.SessionRequest / StatelessRequest: status from serverResp.Error
RequestStatus(err) == IF err # "" THEN StatusInternalServerError ELSE StatusOK

InitReq ==
    [pc |-> "new", op |-> "", sid |-> EmptyID, obj |-> NoSession, err |-> "",
     status |-> 0, panic |-> FALSE, released |-> 0]

\* a request or connection that does not take part in the run
Absent(q) == [q EXCEPT !.pc = "absent"]

InitConn ==
    [pc |-> "new", sessionID |-> EmptyID, closed |-> FALSE, closes |-> 0,
     wp |-> "off", ctxDone |-> FALSE, cur |-> "", sid |-> EmptyID,
     old |-> EmptyID, obj |-> NoSession, mid |-> EmptyID, err |-> "",
     out |-> [type |-> "", ok |-> FALSE, id |-> EmptyID],
     pinged |-> FALSE, unans |-> 0, tk |-> PingPeriod, rdl |-> PongWait]

InitShared ==
    /\ sessions = <<>>
    /\ objs = [o \in Handles |-> [made |-> FALSE, closes |-> 0]]
    /\ semaphore = 0
    /\ connections = {}
    /\ sessionConns = <<>>
    /\ nread = 0
    /\ server = "running"
    /\ adapter = NoResponse
    /\ locks = NoLocks

\* a limiter whose channel holds one token more than the configured limit
LimiterAdmitsOneMore(sem) == sem <= MaxConcurrent

\* ConcurrentRequestLimiter: `select { case semaphore <- struct{}{}: ... default: ... }`
LimiterAdmits(sem) == sem < MaxConcurrent

\* a release written after next.ServeHTTP instead of deferred: a panic skips it
LimiterReleaseUnlessPanic(sem, panicking) == IF panicking THEN sem ELSE sem - 1

\* the limiter's `defer func() { <-semaphore }()`; it runs on a normal return
\* and while a panic unwinds
LimiterRelease(sem, panicking) == sem - 1

\* RecoveryMiddleware: a recovered panic is answered with 500
RecoveredStatus(status, panicking) ==
    IF panicking THEN StatusInternalServerError ELSE status

\* RecoveryMiddleware: the error field of the body it writes for a recovered panic
RecoveredError(err, panicking) ==
    IF panicking THEN "Internal server error" ELSE err

\* What a finished request leaves behind: its response (status, error field, and
\* for a create the session ID) and how many tokens it gave back; the other
\* locals die with the handler's frame.
Finished(q, sem, sem2) ==
    [InitReq EXCEPT !.pc = "done", !.op = q.op,
       !.status = RecoveredStatus(q.status, q.panic),
       !.released = q.released + (sem - sem2),
       !.sid = IF q.op = "create" /\ q.err = "" THEN q.sid ELSE EmptyID,
       !.err = RecoveredError(q.err, q.panic)]

\* The wrapped handler of request r returns (or panics) with locals q: the
\* limiter's deferred release runs, then RecoveryMiddleware's deferred recover.
Return(r, q) ==
    /\ semaphore' = LimiterRelease(semaphore, q.panic)
    /\ req' = [req EXCEPT ![r] = Finished(q, semaphore, semaphore')]

\* the process runs until a panic unwinds a goroutine that has no recover
Alive(srv) == srv # "crashed"

\* http.Server accepts connections until Shutdown closes its listeners
Listening(srv) == srv \in {"running", "cancelled"}

Arrive(r) ==
    /\ req[r].pc = "new"
    /\ Listening(server)
    /\ IF LimiterAdmits(semaphore)
       THEN /\ semaphore' = semaphore + 1
            /\ req' = [req EXCEPT ![r].pc = "handler"]
       ELSE /\ semaphore' = semaphore
            /\ req' = [req EXCEPT ![r].pc = "done", ![r].op = "rejected",
                                  ![r].status = StatusTooManyRequests]
    /\ UNCHANGED <<sessions, objs>>

\* the Content-Type headers and bodies a request can bring: no header, a JSON
\* type, any other type; no body, well-formed JSON, anything else
ContentTypes == {"", "application/json", "text/xml"}
Bodies == {"empty", "json", "malformed"}

\* protocol.DetectProtocol: the empty type counts as JSON
DetectProtocolErr(contentType) ==
    IF contentType \in {"", "application/json"} THEN "" ELSE "unsupported media type"

\* common.ParseRequestBody: the error it returns ("" for nil).  The type is
\* looked at first; an empty body is not decoded.
ParseRequestBodyErr(contentType, body) ==
    IF DetectProtocolErr(contentType) # "" THEN "unsupported media type"
    ELSE IF body = "malformed" THEN "invalid request body"
    ELSE ""

\* the handlers' answer to an error of ParseRequestBody: http.StatusBadRequest
ParseErrorStatus(err) == StatusBadRequest

\* Handler.CreateSession / SessionRequest / StatelessRequest: ParseRequestBody fails
RestBadBody(r) ==
    /\ req[r].pc = "handler"
    /\ \E contentType \in ContentTypes, body \in Bodies :
         LET e == ParseRequestBodyErr(contentType, body)
         IN /\ e # ""
            /\ Return(r, [req[r] EXCEPT !.op = "badbody", !.err = e,
                                        !.status = ParseErrorStatus(e)])
    /\ UNCHANGED <<sessions, objs>>

\* Handler.CreateSession -> SessionController.CreateSession(&config)
\*   -> DefaultSessionManager.CreateSessionWithConfig(GenerateSessionID(), config)
RestCreateSession(r) ==
    /\ req[r].pc = "handler"
    /\ \E gen \in IDs, proxyOK \in BOOLEAN :
         LET id == EffectiveID(gen, gen)
             e == CreateSessionWithConfigErr(sessions, id, proxyOK)
             o == NewSession(r)
         IN /\ sessions' = CreateSessionWithConfigMap(sessions, id, o, proxyOK)
            /\ objs' = IF e = "" THEN Register(objs, o) ELSE objs
            /\ Return(r, [req[r] EXCEPT !.op = "create", !.sid = id, !.err = e,
                            !.status = IF e = "" THEN StatusCreated
                                       ELSE StatusInternalServerError])

\* Handler.DeleteSession -> SessionController.DeleteSession(id)
RestDeleteSession(r) ==
    /\ req[r].pc = "handler"
    /\ \E id \in IDs :
         LET e == ControllerDeleteErr(sessions, id)
         IN /\ objs' = DeleteSessionObjs(sessions, objs, id)
            /\ sessions' = DeleteSessionMap(sessions, id)
            /\ Return(r, [req[r] EXCEPT !.op = "delete", !.sid = id, !.err = e,
                            !.status = IF e = "" THEN StatusNoContent
                                       ELSE StatusNotFound])

\* Handler.SessionRequest -> SessionController.ExecuteRequest: the lookup
RestSessionRequest(r) ==
    /\ req[r].pc = "handler"
    /\ \E id \in IDs :
         LET e == ControllerGetErr(sessions, id)
             q == [req[r] EXCEPT !.op = "request", !.err = e,
                                 !.obj = ControllerGet(sessions, id)]
         IN IF e = ""
            THEN /\ req' = [req EXCEPT ![r] = [q EXCEPT !.pc = "exec"]]
                 /\ UNCHANGED semaphore
            ELSE Return(r, [q EXCEPT !.status = RequestStatus(e)])
    /\ UNCHANGED <<sessions, objs>>

\* Handler.StatelessRequest -> SessionController.ExecuteStatelessRequest:
\* sessionManager.CreateSession(GenerateSessionID()) and the defer of the delete
RestStatelessRequest(r) ==
    /\ req[r].pc = "handler"
    /\ \E gen \in IDs :
         LET id == EffectiveID(gen, gen)
             e == CreateSessionErr(sessions, id)
             o == NewSession(r)
             q == [req[r] EXCEPT !.op = "stateless", !.sid = id]
         IN /\ sessions' = CreateSessionMap(sessions, id, o)
            /\ IF e = ""
               THEN /\ objs' = Register(objs, o)
                    /\ req' = [req EXCEPT ![r] = [q EXCEPT !.pc = "exec", !.obj = o]]
                    /\ UNCHANGED semaphore
               ELSE /\ objs' = objs
                    /\ Return(r, [q EXCEPT !.err = "Failed to create temporary session",
                                           !.status = RequestStatus("Failed to create temporary session")])

\* SessionController.executeRequestWithSession(session, serverReq)
RestExecute(r) ==
    /\ req[r].pc = "exec"
    /\ \E outcome \in Outcomes :
         LET q == [req[r] EXCEPT !.err = ExecError(outcome),
                                 !.panic = (outcome = "panic"),
                                 !.status = RequestStatus(ExecError(outcome))]
         IN IF req[r].op = "stateless"
            THEN /\ req' = [req EXCEPT ![r] = [q EXCEPT !.pc = "deferred"]]
                 /\ UNCHANGED semaphore
            ELSE Return(r, q)
    /\ UNCHANGED <<sessions, objs>>

\* a delete placed after the execution instead of deferred: it runs on success only
DeferredDeleteOnSuccess(err, panicking) == err = "" /\ ~panicking

\* ExecuteStatelessRequest's `defer ... sessionManager.DeleteSession(sessionID)`:
\* whether the delete runs, given how executeRequestWithSession ended
DeferredDeleteRuns(err, panicking) == TRUE

\* the deferred sessionManager.DeleteSession(tempSessionID) of
\* ExecuteStatelessRequest, then the handler's return
RestStatelessCleanup(r) ==
    /\ req[r].pc = "deferred"
    /\ IF DeferredDeleteRuns(req[r].err, req[r].panic)
       THEN /\ objs' = DeleteSessionObjs(sessions, objs, req[r].sid)
            /\ sessions' = DeleteSessionMap(sessions, req[r].sid)
       ELSE UNCHANGED <<sessions, objs>>
    /\ Return(r, req[r])

RestStep(r) ==
    /\ Alive(server)
    /\ \/ Arrive(r)
       \/ RestBadBody(r)
       \/ RestCreateSession(r)
       \/ RestDeleteSession(r)
       \/ RestSessionRequest(r)
       \/ RestStatelessRequest(r)
       \/ RestExecute(r)
       \/ RestStatelessCleanup(r)
    /\ UNCHANGED <<connVars, adapter, locks>>

\* ------------------------------------------------------ Connection Object
\* the client message types the read pump can receive; "bogus" stands for any
\* type outside the closed set
MsgTypes == {"request", "ping", "pong", "create_session", "delete_session", "bogus"}

NoReply == [type |-> "", ok |-> FALSE, id |-> EmptyID]

\* a Close without the closed check: every call closes closeChan and the socket
CloseConnUnchecked(q) == [q EXCEPT !.closed = TRUE, !.closes = @ + 1]

\* WSConnection.Close: the first call flips the flag, closes closeChan and the socket
CloseConn(q) == IF q.closed THEN q ELSE [q EXCEPT !.closed = TRUE, !.closes = @ + 1]

\* WSConnection.WriteJSON: refused on a closed connection, else the socket's outcome
WriteJSON(q, sockOK) == ~q.closed /\ sockOK

\* a reply that leaves the ID field of the outgoing WSMessage unset
ReplyWithoutID(q, type, sockOK) ==
    [q EXCEPT !.out = [type |-> type, ok |-> WriteJSON(q, sockOK), id |-> EmptyID],
              !.pc = IF WriteJSON(q, sockOK) THEN "loop" ELSE "errreply",
              !.mid = IF WriteJSON(q, sockOK) THEN EmptyID ELSE @,
              !.sid = EmptyID, !.old = EmptyID, !.obj = NoSession]

\* a pump that writes its own error message after every handler, also after one
\* whose reply was written
ReplyThenErrorReply(q, type, sockOK) ==
    [q EXCEPT !.out = [type |-> type, ok |-> WriteJSON(q, sockOK), id |-> q.mid],
              !.pc = "errreply",
              !.sid = EmptyID, !.old = EmptyID, !.obj = NoSession]

\* A handler's reply through SendResponse / SendError / WriteJSON, and where the
\* read pump goes next: on with the loop, or to its own error reply when the
\* handler returned the write's error
Reply(q, type, sockOK) ==
    [q EXCEPT !.out = [type |-> type, ok |-> WriteJSON(q, sockOK), id |-> q.mid],
              !.pc = IF WriteJSON(q, sockOK) THEN "loop" ELSE "errreply",
              !.mid = IF WriteJSON(q, sockOK) THEN EmptyID ELSE @,
              !.sid = EmptyID, !.old = EmptyID, !.obj = NoSession]

\* ---------------------------------------------------- Connection Registry
\* ConnectionManager.AddConnection: the session-keyed map it leaves
AddConnectionSessions(sc, c, sid) == IF sid # EmptyID THEN MapPut(sc, sid, c) ELSE sc

\* an update that adds the new key and leaves the old one in the map
UpdateSessionMappingKeepOld(sc, c, oldSessionID, newSessionID) ==
    IF newSessionID # EmptyID THEN MapPut(sc, newSessionID, c) ELSE sc

\* ConnectionManager.UpdateSessionMapping
UpdateSessionMapping(sc, c, oldSessionID, newSessionID) ==
    LET d == IF oldSessionID # EmptyID THEN MapDelete(sc, oldSessionID) ELSE sc
    IN IF newSessionID # EmptyID THEN MapPut(d, newSessionID, c) ELSE d

\* ConnectionManager.RemoveConnection: the session-keyed map it leaves
RemoveConnectionSessions(conns, sc, c, sid) ==
    IF c \in conns THEN MapDelete(sc, sid) ELSE sc

\* ------------------------------------------------- WebSocket: connecting
\* the /ws route runs behind the same middleware chain as the REST routes
WsArrive(c) ==
    /\ conn[c].pc = "new"
    /\ Listening(server)
    /\ IF LimiterAdmits(semaphore)
       THEN /\ semaphore' = semaphore + 1
            /\ conn' = [conn EXCEPT ![c].pc = "upgrade"]
       ELSE /\ semaphore' = semaphore
            /\ conn' = [conn EXCEPT ![c].pc = "rejected"]
    /\ UNCHANGED <<sessions, objs, req, connections, sessionConns, nread, clockOn, server, adapter, locks>>

\* an accept that binds the new connection to a session named after it
UpgradeSessionIDAuto(c) == c

\* the session ID ServeHTTP gives the new connection: NewWSConnection(conn, "")
UpgradeSessionID(c) == EmptyID

\* WSHandler.ServeHTTP: upgrade, NewWSConnection(conn, ""), start the connection's
\* goroutine and return (the limiter's token goes back)
WsServeHTTP(c) ==
    /\ conn[c].pc = "upgrade"
    /\ \E upgraded \in BOOLEAN :
         conn' = [conn EXCEPT ![c].pc = IF upgraded THEN "start" ELSE "failed",
                              ![c].sessionID = UpgradeSessionID(c)]
    /\ semaphore' = LimiterRelease(semaphore, FALSE)
    /\ UNCHANGED <<sessions, objs, req, connections, sessionConns, nread, clockOn, server, adapter, locks>>

\* ConnectionHandler.HandleConnection up to the pumps: AddConnection, go writePump,
\* and readPump's first SetReadDeadline
WsAddConnection(c) ==
    /\ conn[c].pc = "start"
    /\ connections' = connections \cup {c}
    /\ sessionConns' = AddConnectionSessions(sessionConns, c, conn[c].sessionID)
    /\ conn' = [conn EXCEPT ![c].pc = "loop", ![c].wp = "run",
                            ![c].rdl = PongWait, ![c].tk = PingPeriod]
    /\ UNCHANGED <<sessions, objs, semaphore, req, nread, clockOn, server, adapter, locks>>

\* the request's context is cancelled (the server cancels it when ServeHTTP
\* returns, when the client's connection closes, or on shutdown)
CtxCancel(c) ==
    /\ conn[c].pc \notin {"absent", "new", "upgrade", "rejected", "failed", "done"}
    /\ ~conn[c].ctxDone
    /\ conn' = [conn EXCEPT ![c].ctxDone = TRUE]
    /\ UNCHANGED <<sessions, objs, semaphore, req, connections, sessionConns, nread, clockOn, server, adapter, locks>>

\* --------------------------------------------------- WebSocket: read pump
\* readPump's select: return on ctx.Done() or CloseChan(), else call ReadJSON,
\* which sets the read deadline and blocks
WsSelect(c) ==
    /\ conn[c].pc = "loop"
    /\ conn' = [conn EXCEPT
                  ![c].pc = IF conn[c].ctxDone \/ conn[c].closed THEN "closing" ELSE "read",
                  ![c].rdl = IF conn[c].ctxDone \/ conn[c].closed THEN @ ELSE ReadDeadline,
                  ![c].out = NoReply, ![c].cur = "", ![c].err = ""]
    /\ UNCHANGED <<sessions, objs, semaphore, req, connections, sessionConns, nread, clockOn, server, adapter, locks>>

\* a read pump that hands every message to the handler, a pong as well
WsReadMessageAll(c) ==
    /\ conn[c].pc = "read"
    /\ ~conn[c].closed
    /\ clockOn => conn[c].rdl > 0
    /\ nread < MaxMsgs
    /\ nread' = nread + 1
    /\ \E t \in MsgTypes, i \in MsgIDs :
         conn' = [conn EXCEPT ![c].cur = t, ![c].mid = i, ![c].pc = "dispatch"]
    /\ UNCHANGED <<sessions, objs, semaphore, req, connections, sessionConns, clockOn, server, adapter, locks>>

\* ReadJSON returns a message; a pong is dropped by the pump (`continue`)
WsReadMessage(c) ==
    /\ conn[c].pc = "read"
    /\ ~conn[c].closed
    /\ clockOn => conn[c].rdl > 0
    /\ nread < MaxMsgs
    /\ nread' = nread + 1
    /\ \E t \in MsgTypes, i \in MsgIDs :
         conn' = [conn EXCEPT ![c].cur = t,
                    ![c].mid = IF t = "pong" THEN EmptyID ELSE i,
                    ![c].pc = IF t = "pong" THEN "loop" ELSE "dispatch",
                    ![c].pinged = IF t = "pong" THEN FALSE ELSE @,
                    ![c].unans = IF t = "pong" THEN 0 ELSE @]
    /\ UNCHANGED <<sessions, objs, semaphore, req, connections, sessionConns, clockOn, server, adapter, locks>>

\* ReadJSON returns an error: the client closed, the socket failed or was closed
\* here, or the read deadline passed
WsReadError(c) ==
    /\ conn[c].pc = "read"
    /\ conn' = [conn EXCEPT ![c].pc = "closing"]
    /\ UNCHANGED <<sessions, objs, semaphore, req, connections, sessionConns, nread, clockOn, server, adapter, locks>>

\* handleRequestMessage: the message type for a logical response
ResponseType(err) == IF err # "" THEN "error" ELSE "response"

\* WSHandler.handleRequestMessage up to the engine call; err is the text of the
\* error the handler reports, the payload's or serverResp.Error
WsHandleRequest(c) ==
    /\ conn[c].pc = "dispatch" /\ conn[c].cur = "request"
    /\ \E payloadOK \in BOOLEAN, sockOK \in BOOLEAN :
         LET e == IF ~payloadOK THEN "Invalid request payload"
                  ELSE ControllerGetErr(sessions, conn[c].sessionID)
         IN conn' = [conn EXCEPT ![c] =
                IF e # "" THEN [Reply(@, ResponseType(e), sockOK) EXCEPT !.err = e]
                ELSE [@ EXCEPT !.pc = "exec",
                               !.obj = ControllerGet(sessions, conn[c].sessionID)]]
    /\ UNCHANGED <<sessions, objs, semaphore, req, connections, sessionConns, nread, clockOn, server, adapter, locks>>

\* executeRequestWithSession on the WebSocket path, then SendError / SendResponse
WsExecute(c) ==
    /\ conn[c].pc = "exec"
    /\ \E outcome \in Outcomes \ {"panic"}, sockOK \in BOOLEAN :
         conn' = [conn EXCEPT ![c] =
                    [Reply(@, ResponseType(ExecError(outcome)), sockOK)
                        EXCEPT !.err = ExecError(outcome)]]
    /\ UNCHANGED <<sessions, objs, semaphore, req, connections, sessionConns, nread, clockOn, server, adapter, locks>>

\* executeRequestWithSession panics on the WebSocket path.  Neither readPump,
\* HandleConnection nor ServeHTTP's goroutine recovers, so the panic unwinds the
\* goroutine and the Go runtime ends the process.
WsPanic(c) ==
    /\ conn[c].pc = "exec"
    /\ conn' = [conn EXCEPT ![c].pc = "panic"]
    /\ server' = "crashed"
    /\ UNCHANGED <<sessions, objs, semaphore, req, connections, sessionConns, nread, clockOn, adapter, locks>>

\* a ping handler that answers only on a connection with a bound session
WsHandlePingBoundOnly(c) ==
    /\ conn[c].pc = "dispatch" /\ conn[c].cur = "ping"
    /\ \E sockOK \in BOOLEAN :
         conn' = [conn EXCEPT ![c] =
                    Reply(@, IF conn[c].sessionID = EmptyID THEN "error" ELSE "pong", sockOK)]
    /\ UNCHANGED <<sessions, objs, semaphore, req, connections, sessionConns, nread, clockOn, server, adapter, locks>>

\* WSHandler.handlePingMessage
WsHandlePing(c) ==
    /\ conn[c].pc = "dispatch" /\ conn[c].cur = "ping"
    /\ \E sockOK \in BOOLEAN : conn' = [conn EXCEPT ![c] = Reply(@, "pong", sockOK)]
    /\ UNCHANGED <<sessions, objs, semaphore, req, connections, sessionConns, nread, clockOn, server, adapter, locks>>

\* a default branch that answers the unknown type and then drops the connection
WsHandleUnknownCloses(c) ==
    /\ conn[c].pc = "dispatch" /\ conn[c].cur = "bogus"
    /\ \E sockOK \in BOOLEAN :
         conn' = [conn EXCEPT ![c] = [Reply(@, "error", sockOK) EXCEPT !.pc = "closing"]]
    /\ UNCHANGED <<sessions, objs, semaphore, req, connections, sessionConns, nread, clockOn, server, adapter, locks>>

\* WSHandler.handleMessage, default branch
WsHandleUnknown(c) ==
    /\ conn[c].pc = "dispatch" /\ conn[c].cur = "bogus"
    /\ \E sockOK \in BOOLEAN : conn' = [conn EXCEPT ![c] = Reply(@, "error", sockOK)]
    /\ UNCHANGED <<sessions, objs, semaphore, req, connections, sessionConns, nread, clockOn, server, adapter, locks>>

\* WSHandler.handleCreateSession: decode the config and controller.CreateSession
WsHandleCreateSession(c) ==
    /\ conn[c].pc = "dispatch" /\ conn[c].cur = "create_session"
    /\ \E payloadOK \in BOOLEAN, gen \in IDs, proxyOK \in BOOLEAN, sockOK \in BOOLEAN :
         LET id == EffectiveID(gen, gen)
             e == CreateSessionWithConfigErr(sessions, id, proxyOK)
             o == NumReqs + nread
         IN IF ~payloadOK \/ e # ""
            THEN /\ conn' = [conn EXCEPT ![c] = Reply(@, "error", sockOK)]
                 /\ UNCHANGED <<sessions, objs>>
            ELSE /\ sessions' = CreateSessionWithConfigMap(sessions, id, o, proxyOK)
                 /\ objs' = Register(objs, o)
                 /\ conn' = [conn EXCEPT ![c].pc = "create2", ![c].sid = id]
    /\ UNCHANGED <<semaphore, req, connections, sessionConns, nread, clockOn, server, adapter, locks>>

\* handleCreateSession: oldSessionID := conn.SessionID(); conn.SetSessionID(sessionID)
WsCreateSetSessionID(c) ==
    /\ conn[c].pc = "create2"
    /\ conn' = [conn EXCEPT ![c].pc = "create3", ![c].old = conn[c].sessionID,
                            ![c].sessionID = conn[c].sid]
    /\ UNCHANGED <<sessions, objs, semaphore, req, connections, sessionConns, nread, clockOn, server, adapter, locks>>

\* handleCreateSession: connManager.UpdateSessionMapping and the response
WsCreateUpdateMapping(c) ==
    /\ conn[c].pc = "create3"
    /\ sessionConns' = UpdateSessionMapping(sessionConns, c, conn[c].old, conn[c].sid)
    /\ \E sockOK \in BOOLEAN : conn' = [conn EXCEPT ![c] = Reply(@, "response", sockOK)]
    /\ UNCHANGED <<sessions, objs, semaphore, req, connections, nread, clockOn, server, adapter, locks>>

\* WSHandler.handleDeleteSession: the binding check and controller.DeleteSession
WsHandleDeleteSession(c) ==
    /\ conn[c].pc = "dispatch" /\ conn[c].cur = "delete_session"
    /\ \E sockOK \in BOOLEAN :
         LET id == conn[c].sessionID
             e == IF id = EmptyID THEN "No active session"
                  ELSE ControllerDeleteErr(sessions, id)
         IN IF e # ""
            THEN /\ conn' = [conn EXCEPT ![c] = Reply(@, "error", sockOK)]
                 /\ UNCHANGED <<sessions, objs>>
            ELSE /\ objs' = DeleteSessionObjs(sessions, objs, id)
                 /\ sessions' = DeleteSessionMap(sessions, id)
                 /\ conn' = [conn EXCEPT ![c].pc = "delete2"]
    /\ UNCHANGED <<semaphore, req, connections, sessionConns, nread, clockOn, server, adapter, locks>>

\* a delete_session that leaves the connection bound to the deleted session
WsDeleteKeepsSessionID(c) ==
    /\ conn[c].pc = "delete2"
    /\ conn' = [conn EXCEPT ![c].pc = "delete3", ![c].old = conn[c].sessionID]
    /\ UNCHANGED <<sessions, objs, semaphore, req, connections, sessionConns, nread, clockOn, server, adapter, locks>>

\* handleDeleteSession: oldSessionID := conn.SessionID(); conn.SetSessionID("")
WsDeleteSetSessionID(c) ==
    /\ conn[c].pc = "delete2"
    /\ conn' = [conn EXCEPT ![c].pc = "delete3", ![c].old = conn[c].sessionID,
                            ![c].sessionID = EmptyID]
    /\ UNCHANGED <<sessions, objs, semaphore, req, connections, sessionConns, nread, clockOn, server, adapter, locks>>

\* handleDeleteSession: connManager.UpdateSessionMapping and SendSuccess
WsDeleteUpdateMapping(c) ==
    /\ conn[c].pc = "delete3"
    /\ sessionConns' = UpdateSessionMapping(sessionConns, c, conn[c].old, EmptyID)
    /\ \E sockOK \in BOOLEAN : conn' = [conn EXCEPT ![c] = Reply(@, "response", sockOK)]
    /\ UNCHANGED <<sessions, objs, semaphore, req, connections, nread, clockOn, server, adapter, locks>>

\* readPump: the handler returned an error, so the pump writes an error message
\* itself; if that write fails too the pump stops
WsErrorReply(c) ==
    /\ conn[c].pc = "errreply"
    /\ \E sockOK \in BOOLEAN :
         conn' = [conn EXCEPT ![c].out = [type |-> "error", ok |-> WriteJSON(conn[c], sockOK),
                                          id |-> conn[c].mid],
                    ![c].mid = EmptyID,
                    ![c].pc = IF WriteJSON(conn[c], sockOK) THEN "loop" ELSE "closing"]
    /\ UNCHANGED <<sessions, objs, semaphore, req, connections, sessionConns, nread, clockOn, server, adapter, locks>>

\* ----------------------------------------------------- WebSocket: teardown
\* readPump returns: its deferred conn.Close(), then HandleConnection's deferred cancel()
WsClose(c) ==
    /\ conn[c].pc = "closing"
    /\ conn' = [conn EXCEPT ![c] = [CloseConn(@) EXCEPT !.pc = "remove", !.ctxDone = TRUE,
                                        !.out = NoReply, !.cur = "", !.err = "",
                                        !.rdl = PongWait,
                                        !.pinged = FALSE, !.unans = 0]]
    /\ UNCHANGED <<sessions, objs, semaphore, req, connections, sessionConns, nread, clockOn, server, adapter, locks>>

\* HandleConnection's deferred connManager.RemoveConnection(connID)
WsRemoveConnection(c) ==
    /\ conn[c].pc = "remove"
    /\ sessionConns' = RemoveConnectionSessions(connections, sessionConns, c, conn[c].sessionID)
    /\ connections' = connections \ {c}
    /\ conn' = [conn EXCEPT ![c] = [(IF c \in connections THEN CloseConn(@) ELSE @)
                                        EXCEPT !.pc = "cleanup"]]
    /\ UNCHANGED <<sessions, objs, semaphore, req, nread, clockOn, server, adapter, locks>>

\* a goroutine that ends without deleting the bound session
CleanupDeletesNever(sid) == FALSE

\* whether ServeHTTP's deferred function calls controller.DeleteSession
CleanupDeletes(sid) == sid # EmptyID

\* the deferred function of ServeHTTP's goroutine: delete the bound session
WsCleanup(c) ==
    /\ conn[c].pc = "cleanup"
    /\ LET id == conn[c].sessionID
       IN IF CleanupDeletes(id)
          THEN /\ objs' = DeleteSessionObjs(sessions, objs, id)
               /\ sessions' = DeleteSessionMap(sessions, id)
          ELSE UNCHANGED <<sessions, objs>>
    /\ conn' = [conn EXCEPT ![c].pc = "done"]
    /\ UNCHANGED <<semaphore, req, connections, sessionConns, nread, clockOn, server, adapter, locks>>

\* ConnectionManager.CloseAll
CloseAll ==
    /\ Alive(server)
    /\ connections # {}
    /\ conn' = [c \in Conns |-> IF c \in connections THEN CloseConn(conn[c]) ELSE conn[c]]
    /\ connections' = {}
    /\ sessionConns' = <<>>
    /\ UNCHANGED <<sessions, objs, semaphore, req, nread, clockOn, server, adapter, locks>>

\* --------------------------------------------------- WebSocket: write pump
\* writePump, case <-ticker.C: send a ping through WriteJSON
WpPing(c) ==
    /\ conn[c].wp = "run"
    /\ clockOn => conn[c].tk = 0
    /\ \E sockOK \in BOOLEAN :
         conn' = [conn EXCEPT
                    ![c].wp = IF WriteJSON(conn[c], sockOK) THEN "run" ELSE "failed",
                    ![c].pinged = @ \/ WriteJSON(conn[c], sockOK),
                    ![c].tk = PingPeriod]
    /\ UNCHANGED <<sessions, objs, semaphore, req, connections, sessionConns, nread, clockOn, server, adapter, locks>>

\* writePump, case <-ctx.Done(): conn.conn.WriteMessage(CloseMessage, nil) starts.
\* The call goes to the socket directly and does not take the connection's mutex.
WpCtxDone(c) ==
    /\ conn[c].wp = "run"
    /\ conn[c].ctxDone
    /\ conn' = [conn EXCEPT ![c].wp = "ctxwrite", ![c].tk = PingPeriod]
    /\ UNCHANGED <<sessions, objs, semaphore, req, connections, sessionConns, nread, clockOn, server, adapter, locks>>

\* writePump, case <-ctx.Done(): the close frame's write returns, and so does the pump
WpCloseFrameDone(c) ==
    /\ conn[c].wp = "ctxwrite"
    /\ conn' = [conn EXCEPT ![c].wp = "ctx"]
    /\ UNCHANGED <<sessions, objs, semaphore, req, connections, sessionConns, nread, clockOn, server, adapter, locks>>

\* writePump, case <-conn.CloseChan(): return
WpCloseChan(c) ==
    /\ conn[c].wp = "run"
    /\ conn[c].closed
    /\ conn' = [conn EXCEPT ![c].wp = "closed", ![c].tk = PingPeriod]
    /\ UNCHANGED <<sessions, objs, semaphore, req, connections, sessionConns, nread, clockOn, server, adapter, locks>>

\* One granule of time passes while the read pump waits in ReadJSON.  A due
\* timer fires before more time passes: the read deadline and the ping ticker.
Tick(c) ==
    /\ Alive(server)
    /\ clockOn
    /\ conn[c].pc = "read"
    /\ conn[c].rdl > 0
    /\ conn[c].wp = "run" => conn[c].tk > 0
    /\ conn' = [conn EXCEPT
                  ![c].rdl = @ - TimeUnit,
                  ![c].tk = IF conn[c].wp = "run" THEN @ - TimeUnit ELSE @,
                  ![c].unans = IF conn[c].pinged /\ @ <= PongWait THEN @ + TimeUnit ELSE @]
    /\ UNCHANGED <<sessions, objs, semaphore, req, connections, sessionConns, nread, clockOn, server, adapter, locks>>

WsStep(c) ==
    /\ Alive(server)
    /\ \/ WsArrive(c)
       \/ WsServeHTTP(c)
       \/ WsAddConnection(c)
       \/ CtxCancel(c)
       \/ WsSelect(c)
       \/ WsReadMessage(c)
       \/ WsReadError(c)
       \/ WsHandleRequest(c)
       \/ WsExecute(c)
       \/ WsPanic(c)
       \/ WsHandlePing(c)
       \/ WsHandleUnknown(c)
       \/ WsHandleCreateSession(c)
       \/ WsCreateSetSessionID(c)
       \/ WsCreateUpdateMapping(c)
       \/ WsHandleDeleteSession(c)
       \/ WsDeleteSetSessionID(c)
       \/ WsDeleteUpdateMapping(c)
       \/ WsErrorReply(c)
       \/ WsClose(c)
       \/ WsRemoveConnection(c)
       \/ WsCleanup(c)
       \/ WpPing(c)
       \/ WpCtxDone(c)
       \/ WpCloseFrameDone(c)
       \/ WpCloseChan(c)

\* ------------------------------------------------------------------ Server
\* Server.Stop: s.cancel(), which wakes the goroutine started by Server.Start
Stop ==
    /\ server = "running"
    /\ server' = "cancelled"
    /\ UNCHANGED <<sessions, objs, semaphore, req, conn, connections, sessionConns, nread, clockOn, adapter, locks>>

\* Start's goroutine: httpServer.Shutdown closes the listeners.  It returns when
\* the connections it tracks are idle or its 30 s context expires; hijacked
\* connections are not tracked, so handlers of either kind may still be running.
Shutdown ==
    /\ server = "cancelled"
    /\ server' = "shutdown"
    /\ UNCHANGED <<sessions, objs, semaphore, req, conn, connections, sessionConns, nread, clockOn, adapter, locks>>

\* Start's goroutine: sessionManager.CleanupSessions()
CleanupSessions ==
    /\ server = "shutdown"
    /\ server' = "cleaned"
    /\ objs' = CleanupSessionsObjs(sessions, objs)
    /\ sessions' = CleanupSessionsMap(sessions)
    /\ UNCHANGED <<semaphore, req, conn, connections, sessionConns, nread, clockOn, adapter, locks>>

ServerStep == Stop \/ Shutdown \/ CleanupSessions

\* ------------------------------------------------------- specifications
\* a run of REST requests only
InitRest ==
    /\ InitShared
    /\ req = [r \in Reqs |-> InitReq]
    /\ conn = [c \in Conns |-> Absent(InitConn)]
    /\ clockOn = FALSE

NextRest == \E r \in Reqs : RestStep(r)

SpecRest == InitRest /\ [][NextRest]_vars

\* a run of the WebSocket connections beside one REST request
InitWS ==
    /\ InitShared
    /\ req = [r \in Reqs |-> IF r = 1 THEN InitReq ELSE Absent(InitReq)]
    /\ conn = [c \in Conns |-> InitConn]
    /\ clockOn = FALSE

NextWS ==
    \/ \E c \in Conns : WsStep(c)
    \/ CloseAll
    \/ \E r \in Reqs : RestStep(r)

SpecWS == InitWS /\ [][NextWS]_vars

\* The connection's goroutine keeps running once its read pump has stopped: the
\* deferred calls of readPump, HandleConnection and ServeHTTP's goroutine are
\* plain sequential code with no blocking receive.
WsTeardown(c) == Alive(server) /\ (WsClose(c) \/ WsRemoveConnection(c) \/ WsCleanup(c))

SpecWSFair == SpecWS /\ \A c \in Conns : WF_vars(WsTeardown(c))

\* a run of one WebSocket connection against the clock
InitHB ==
    /\ InitShared
    /\ req = [r \in Reqs |-> Absent(InitReq)]
    /\ conn = [c \in Conns |-> IF c = 1 THEN InitConn ELSE Absent(InitConn)]
    /\ clockOn = TRUE

NextHB ==
    \/ \E c \in Conns : WsStep(c)
    \/ \E c \in Conns : Tick(c)

SpecHB == InitHB /\ [][NextHB]_vars

\* a run of REST requests while the server is stopped
NextCleanup ==
    \/ \E r \in Reqs : RestStep(r)
    \/ ServerStep

SpecCleanup == InitRest /\ [][NextCleanup]_vars

\* a run of one WebSocket connection while the server is stopped
InitStop ==
    /\ InitShared
    /\ req = [r \in Reqs |-> Absent(InitReq)]
    /\ conn = [c \in Conns |-> IF c = 1 THEN InitConn ELSE Absent(InitConn)]
    /\ clockOn = FALSE

NextStop ==
    \/ \E c \in Conns : WsStep(c)
    \/ ServerStep

SpecStop == InitStop /\ [][NextStop]_vars

\* a run of REST requests beside WebSocket connection attempts, up to the
\* return of WSHandler.ServeHTTP
WsUpgradeStep(c) ==
    /\ Alive(server)
    /\ \/ WsArrive(c)
       \/ WsServeHTTP(c)

InitGate ==
    /\ InitShared
    /\ req = [r \in Reqs |-> InitReq]
    /\ conn = [c \in Conns |-> InitConn]
    /\ clockOn = FALSE

NextGate ==
    \/ \E r \in Reqs : RestStep(r)
    \/ \E c \in Conns : WsUpgradeStep(c)

SpecGate == InitGate /\ [][NextGate]_vars

\* the normalisation of one engine response, for every cookie list it can carry
InitAdapter ==
    /\ sessions = <<>>
    /\ objs = [o \in Handles |-> [made |-> FALSE, closes |-> 0]]
    /\ semaphore = 0
    /\ connections = {}
    /\ sessionConns = <<>>
    /\ nread = 0
    /\ server = "running"
    /\ req = [r \in Reqs |-> Absent(InitReq)]
    /\ conn = [c \in Conns |-> Absent(InitConn)]
    /\ clockOn = FALSE
    /\ adapter \in {[NoResponse EXCEPT !.cookies = l] : l \in CookieLists}
    /\ locks = NoLocks

NextAdapter == ConvertCookie

SpecAdapter == InitAdapter /\ [][NextAdapter]_vars

\* The steps of a connection that wait for nothing outside the process: the
\* sequential code of ServeHTTP, HandleConnection, the handlers and the read
\* pump between two reads, and the deferred calls.  ReadJSON's return, the
\* client's arrival and the cancellation of the request's context depend on
\* the client.
WsInternal(c) ==
    /\ Alive(server)
    /\ \/ WsServeHTTP(c)
       \/ WsAddConnection(c)
       \/ WsSelect(c)
       \/ WsHandleRequest(c)
       \/ WsExecute(c)
       \/ WsHandlePing(c)
       \/ WsHandleUnknown(c)
       \/ WsHandleCreateSession(c)
       \/ WsCreateSetSessionID(c)
       \/ WsCreateUpdateMapping(c)
       \/ WsHandleDeleteSession(c)
       \/ WsDeleteSetSessionID(c)
       \/ WsDeleteUpdateMapping(c)
       \/ WsErrorReply(c)
       \/ WsClose(c)
       \/ WsRemoveConnection(c)
       \/ WsCleanup(c)

\* the write pump's goroutine: its select takes a ready case
WpInternal(c) ==
    /\ Alive(server)
    /\ \/ WpPing(c)
       \/ WpCtxDone(c)
       \/ WpCloseFrameDone(c)
       \/ WpCloseChan(c)

\* ReadJSON returns a pong and the pump drops it (`continue`): the handler is
\* not called and nothing is written, so a client can go on with this for ever
WsReadPong(c) ==
    /\ Alive(server)
    /\ conn[c].pc = "read"
    /\ ~conn[c].closed
    /\ clockOn => conn[c].rdl > 0
    /\ conn' = [conn EXCEPT ![c].cur = "pong", ![c].mid = EmptyID, ![c].pc = "loop",
                            ![c].pinged = FALSE, ![c].unans = 0]
    /\ UNCHANGED <<sessions, objs, semaphore, req, connections, sessionConns, nread, clockOn, server, adapter, locks>>

\* ReadJSON returns: with a message, or with an error when the read deadline it
\* sets on every call has passed
WsReadReturns(c) ==
    /\ Alive(server)
    /\ \/ WsReadMessage(c)
       \/ WsReadPong(c)
       \/ WsReadError(c)

\* a run of one WebSocket connection in which both of its goroutines keep
\* running whenever they can, and no call of ReadJSON waits for ever
NextPump == \E c \in Conns : WsStep(c) \/ WsReadPong(c)

SpecPumpFair ==
    /\ InitStop
    /\ [][NextPump]_vars
    /\ \A c \in Conns : /\ WF_vars(WsInternal(c))
                        /\ WF_vars(WpInternal(c))
                        /\ WF_vars(WsReadReturns(c))

\* the goroutines of the gateway as users of its mutexes, every operation
\* against every other
InitLocks ==
    /\ InitShared
    /\ req = [r \in Reqs |-> Absent(InitReq)]
    /\ conn = [c \in Conns |-> Absent(InitConn)]
    /\ clockOn = FALSE

NextLocks == \E g \in Goroutines : LockBegin(g) \/ LockAcquire(g) \/ LockRelease(g)

SpecLocks == InitLocks /\ [][NextLocks]_vars

\* the execution of one logical request, for every shape of request, session
\* and engine response
ExecInputs ==
    {[NoResponse EXCEPT !.pc = "start", !.body = b, !.bodyB64 = b64, !.ordered = n,
                        !.keys = k, !.optProxy = op, !.optBrowser = ob,
                        !.proxy = sp, !.browser = sb] :
        b \in TextBodies, b64 \in B64Bodies, n \in 0..MaxHeaders, k \in HeaderMaps,
        op \in {"", "proxyA"}, ob \in {"", "firefox"}, sp \in Proxies, sb \in Browsers}

InitExec ==
    /\ sessions = <<>>
    /\ objs = [o \in Handles |-> [made |-> FALSE, closes |-> 0]]
    /\ semaphore = 0
    /\ connections = {}
    /\ sessionConns = <<>>
    /\ nread = 0
    /\ server = "running"
    /\ req = [r \in Reqs |-> Absent(InitReq)]
    /\ conn = [c \in Conns |-> Absent(InitConn)]
    /\ clockOn = FALSE
    /\ adapter \in ExecInputs
    /\ locks = NoLocks

NextExec ==
    \/ ExecBuildRequest
    \/ ExecDo
    \/ ExecNormalize
    \/ ConvertCookie
    \/ ExecReturn

SpecExec == InitExec /\ [][NextExec]_vars

\* ================================================================ Claims
\* REST requests between the limiter's admission and the handler's return
InFlight == {r \in Reqs : req[r].pc \in {"handler", "exec", "deferred"}}

\* step of request r out of the handler's first statement, as operation op
HandlerStep(r, op) == req[r].pc = "handler" /\ req'[r].op = op

\* -------------------------------------------------------------------- C1
\* what a create (REST create or the stateless request's temporary create) does
C1_CreateStep ==
    \A r \in Reqs :
        /\ (HandlerStep(r, "create") /\ req'[r].err = "already exists")
              => /\ UNCHANGED <<sessions, objs>>
                 /\ req'[r].status = StatusInternalServerError
        /\ (HandlerStep(r, "stateless") /\ req'[r].pc = "done")
              => UNCHANGED <<sessions, objs>>
        /\ ((HandlerStep(r, "create") \/ HandlerStep(r, "stateless"))
               /\ req'[r].sid # EmptyID)
              => /\ req'[r].sid \notin DOMAIN sessions
                 /\ sessions' = MapPut(sessions, req'[r].sid, NewSession(r))
                 /\ objs' = Register(objs, NewSession(r))

\* every built, unclosed session object is registered under exactly one ID
C1_LiveObjectsRegistered ==
    \A o \in Handles :
        (objs[o].made /\ objs[o].closes = 0)
            => Cardinality({id \in DOMAIN sessions : sessions[id] = o}) = 1

\* C1: a create whose ID is already registered fails with already-exists and
\* leaves the registry and the registered object as they were; a create that
\* succeeds used an ID that was not registered and adds exactly that entry, so
\* of the creates of one ID only one can succeed while the entry lives, and a
\* live session object is never replaced or dropped from the registry.
C1_DuplicateCreateRejected == [][C1_CreateStep]_vars /\ []C1_LiveObjectsRegistered

\* a create was refused as a duplicate and the session created first is still
\* registered under that ID, unclosed
C1_Witness ==
    \E r1 \in Reqs, r2 \in Reqs :
        /\ r1 # r2
        /\ req[r1].pc = "done" /\ req[r1].op = "create" /\ req[r1].err = ""
        /\ req[r2].pc = "done" /\ req[r2].op = "create"
        /\ req[r2].err = "already exists"
        /\ req[r1].sid \in DOMAIN sessions
        /\ sessions[req[r1].sid] = NewSession(r1)
        /\ objs[NewSession(r1)].closes = 0

\* -------------------------------------------------------------------- C2
Created == {r \in Reqs : req[r].pc = "done" /\ req[r].op = "create" /\ req[r].err = ""}

OnlyCreates == \A r \in Reqs : req[r].op \in {"", "create", "rejected", "badbody"}

\* C2: while creates are the only operations, the registry holds one entry per
\* successful create, each under the ID the create returned and bound to the
\* object that create built: N successful creates leave N entries.
C2_NoLostCreate ==
    OnlyCreates =>
        /\ Cardinality(DOMAIN sessions) = Cardinality(Created)
        /\ \A r \in Created :
              /\ req[r].sid \in DOMAIN sessions
              /\ sessions[req[r].sid] = NewSession(r)

\* two creates succeeded while a third request was turned away by the limiter,
\* so both creates were in flight at once
C2_Witness ==
    /\ OnlyCreates
    /\ Cardinality(Created) >= 2
    /\ \E r \in Reqs : req[r].pc = "done" /\ req[r].op = "rejected"

\* -------------------------------------------------------------------- C3
\* what a REST delete does
C3_DeleteStep ==
    \A r \in Reqs :
        HandlerStep(r, "delete") =>
            \/ /\ req'[r].status = StatusNotFound
               /\ req'[r].err = "not found"
               /\ UNCHANGED <<sessions, objs>>
            \/ /\ req'[r].status = StatusNoContent
               /\ req'[r].err = ""
               /\ \E id \in DOMAIN sessions :
                     /\ sessions' = MapDelete(sessions, id)
                     /\ objs' = CloseObj(objs, sessions[id])

\* C3: a REST delete either answers 404 "not found" and changes neither the
\* registry nor any session object, or answers 204 and removes one registered
\* entry, closing its object once; so a delete of an ID that is not registered
\* can only be the first.
C3_DeleteMissingFails == [][C3_DeleteStep]_vars

\* a delete was answered 404 while another session stayed registered, unclosed
C3_Witness ==
    \E r \in Reqs :
        /\ req[r].pc = "done" /\ req[r].op = "delete"
        /\ req[r].status = StatusNotFound
        /\ \E id \in DOMAIN sessions : objs[sessions[id]].closes = 0

\* -------------------------------------------------------------------- C4
OnlyStateless == \A r \in Reqs : req[r].op \in {"", "stateless", "rejected", "badbody"}

\* the temporary session of a finished stateless request is registered nowhere
\* and, if it was built, has been closed once
C4_TempSessionGone ==
    \A r \in Reqs :
        (req[r].pc = "done" /\ req[r].op = "stateless")
            => /\ NewSession(r) \notin Range(sessions)
               /\ objs[NewSession(r)].made => objs[NewSession(r)].closes = 1

\* a stateless request executes only against the temporary session it built
C4_ExecutesOnlyOnTemp ==
    \A r \in Reqs :
        (req[r].op = "stateless" /\ req[r].pc \in {"exec", "deferred"})
            => /\ req[r].obj = NewSession(r)
               /\ objs[NewSession(r)].made

\* with stateless requests as the only operations and none in flight, the
\* registry is empty as it was at the start
C4_EmptyStaysEmpty == (OnlyStateless /\ InFlight = {}) => sessions = <<>>

\* when the temporary session cannot be created the request ends at once with
\* an error response, and nothing is registered
C4_CreateFailureStep ==
    \A r \in Reqs :
        (HandlerStep(r, "stateless") /\ ~objs'[NewSession(r)].made)
            => /\ req'[r].pc = "done"
               /\ req'[r].err = "Failed to create temporary session"
               /\ req'[r].status = StatusInternalServerError
               /\ UNCHANGED sessions

\* C4: ExecuteStatelessRequest leaves no session behind, whether the execution
\* succeeded, failed in the engine, was refused before the engine or panicked;
\* from an empty registry the registry is empty again afterwards; and a failed
\* creation of the temporary session gives an error response with no execution.
C4_StatelessLeavesNothing ==
    /\ [](C4_TempSessionGone /\ C4_ExecutesOnlyOnTemp /\ C4_EmptyStaysEmpty)
    /\ [][C4_CreateFailureStep]_vars

\* three stateless requests have finished, one with success, one with an
\* engine failure and one refused before the engine; all three temporary
\* sessions were built and closed, and the registry is empty
C4_Witness ==
    /\ sessions = <<>>
    /\ \E r1 \in Reqs, r2 \in Reqs, r3 \in Reqs :
          /\ \A r \in {r1, r2, r3} :
                /\ req[r].pc = "done" /\ req[r].op = "stateless"
                /\ objs[NewSession(r)].closes = 1
          /\ req[r1].err = "" /\ req[r1].status = StatusOK
          /\ req[r2].err = "engine error"
          /\ req[r3].err = "invalid request"

\* -------------------------------------------------------------------- C5
\* session objects built by create_session messages
WsHandles == {o \in Handles : o > NumReqs}

\* the handler's step for a request message on a connection with no bound session
C5_UnboundRequestStep ==
    \A c \in Conns :
        (/\ conn[c].pc = "dispatch" /\ conn[c].cur = "request"
         /\ conn[c].sessionID = EmptyID
         /\ conn'[c].pc # "dispatch")
            => /\ conn'[c].out.type = "error"
               /\ conn'[c].pc \in {"loop", "errreply"}
               /\ conn'[c].pc = "loop" => conn'[c].out.ok
               /\ UNCHANGED <<sessions, objs>>

\* the engine is entered only with a bound session and a session object
C5_ExecNeedsSession ==
    \A c \in Conns :
        /\ conn[c].pc = "exec"
              => conn[c].sessionID # EmptyID /\ conn[c].obj # NoSession
        /\ (conn[c].cur = "request" /\ conn[c].out.type = "response")
              => conn[c].sessionID # EmptyID

C6_CleanupStep ==
    \A c \in Conns :
        (conn[c].pc = "cleanup" /\ conn'[c].pc = "done" /\ conn[c].sessionID # EmptyID)
            => /\ conn[c].sessionID \notin DOMAIN sessions'
               /\ conn[c].sessionID \in DOMAIN sessions
                     => objs' = CloseObj(objs, sessions[conn[c].sessionID])

\* C6: once the read pump of a connection with a bound session has stopped (the
\* client closed, a read failed or timed out, the context was cancelled, the
\* connection was closed here), that session is eventually absent from the
\* registry, with no delete_session message needed: the goroutine's last step
\* deletes it.
C6_DisconnectDeletesSession ==
    /\ \A c \in Conns : \A s \in IDs :
          (conn[c].pc = "closing" /\ conn[c].sessionID = s) ~> (s \notin DOMAIN sessions)
    /\ [][C6_CleanupStep]_vars

\* the only message of the run was a create_session; the connection has ended
\* and the session it built has been closed and is gone from the registry
C6_Witness ==
    \E c \in Conns :
        /\ conn[c].pc = "done" /\ conn[c].sessionID # EmptyID
        /\ nread = 1
        /\ objs[NumReqs + 1].made /\ objs[NumReqs + 1].closes = 1
        /\ conn[c].sessionID \notin DOMAIN sessions
        /\ \A r \in Reqs : req[r].pc \in {"new", "absent"}

\* -------------------------------------------------------------------- C7
\* the session IDs under which connection c is filed
KeysOf(c) == {s \in DOMAIN sessionConns : sessionConns[s] = c}

\* the step of create_session / delete_session that calls UpdateSessionMapping
C7_UpdateStep ==
    \A c \in Conns :
        (conn[c].pc \in {"create3", "delete3"} /\ conn'[c].pc \notin {"create3", "delete3"})
            => LET old == conn[c].old
                   new == conn[c].sessionID
               IN /\ new # EmptyID
                     => new \in DOMAIN sessionConns' /\ sessionConns'[new] = c
                  /\ (old # EmptyID /\ old # new) => old \notin DOMAIN sessionConns'
                  /\ \A k \in IDs \ {old, new} :
                        /\ k \in DOMAIN sessionConns' <=> k \in DOMAIN sessionConns
                        /\ k \in DOMAIN sessionConns => sessionConns'[k] = sessionConns[k]

\* C7: after UpdateSessionMapping the session-keyed map files the connection
\* under the new session ID and no longer under the old one; a connection is
\* never filed under two session IDs at once.
C7_MappingReplaced ==
    /\ [][C7_UpdateStep]_vars
    /\ [](\A c \in Conns : Cardinality(KeysOf(c)) <= 1)

\* a connection bound to one session sent a second create_session: both
\* sessions exist, the connection is filed under the new ID only
C7_Witness ==
    \E c \in Conns :
        /\ conn[c].pc = "loop" /\ conn[c].cur = "create_session"
        /\ conn[c].out.type = "response" /\ conn[c].out.ok
        /\ objs[NumReqs + 1].made /\ objs[NumReqs + 2].made
        /\ Cardinality(DOMAIN sessions) = 2
        /\ KeysOf(c) = {conn[c].sessionID}
        /\ DOMAIN sessionConns = {conn[c].sessionID}

\* -------------------------------------------------------------------- C8
\* what the limiter does with request r when it arrives
C8_ArriveStep ==
    \A r \in Reqs :
        (req[r].pc = "new" /\ req'[r].pc # "new")
            => IF Cardinality(InFlight) >= MaxConcurrent
               THEN /\ req'[r].pc = "done"
                    /\ req'[r].op = "rejected"
                    /\ req'[r].status = StatusTooManyRequests
                    /\ UNCHANGED <<sessions, objs, semaphore>>
               ELSE req'[r].pc = "handler"

Upgrading == {c \in Conns : conn[c].pc = "upgrade"}

\* C9: the tokens held are exactly the admitted requests still in flight; a
\* request that was admitted has given back one token when it is finished,
\* also when its handler panicked and RecoveryMiddleware answered 500; a
\* rejected request and a request still in flight have given back none.
C9_TokensMatchInFlight ==
    /\ semaphore = Cardinality(InFlight) + Cardinality(Upgrading)
    /\ \A r \in Reqs :
          req[r].released = IF req[r].pc = "done" /\ req[r].op # "rejected"
                            THEN 1 ELSE 0

\* a handler panicked, the request was answered 500 by RecoveryMiddleware and
\* its token is back: no request is in flight and no token is held
C9_Witness ==
    /\ semaphore = 0
    /\ \E r \in Reqs :
          /\ req[r].pc = "done" /\ req[r].op \in {"request", "stateless"}
          /\ req[r].err = "Internal server error"
          /\ req[r].status = StatusInternalServerError
          /\ req[r].released = 1
    /\ \E r \in Reqs : req[r].pc = "done" /\ req[r].op = "rejected"

\* ------------------------------------------------------------------- C10
\* the connection's teardown has begun or is over
TornDown(c) == conn[c].pc \in {"closing", "remove", "cleanup", "done"}

\* C10: a connection whose ping has gone unanswered for longer than the
\* read-deadline window has been torn down, whatever else the client sends.
C10_UnansweredPingTearsDown ==
    \A c \in Conns :
        (conn[c].pinged /\ conn[c].unans > PongWait) => TornDown(c)

\* ------------------------------------------------------------------- C11
\* a step that produces a reply puts the pending message's ID into it
C11_ReplyStep ==
    \A c \in Conns :
        (conn'[c].out # conn[c].out /\ conn'[c].out.type # "")
            => conn'[c].out.id = conn[c].mid

\* the ID read with a message stays with the connection until the reply is out
C11_IDKept ==
    \A c \in Conns :
        conn'[c].mid # conn[c].mid
            => \/ conn[c].pc = "read"
               \/ conn'[c].mid = EmptyID /\ conn'[c].out.id = conn[c].mid

\* C11: every reply written in answer to a client message (response, error or
\* pong, from a handler or from the read pump's own error reply) carries the
\* correlation ID of the message that triggered it; an empty ID is echoed empty.
C11_ReplyEchoesID == [][C11_ReplyStep /\ C11_IDKept]_vars

\* a response carrying a non-empty correlation ID has been written
C11_Witness ==
    \E c \in Conns :
        /\ conn[c].out.type = "response" /\ conn[c].out.ok
        /\ conn[c].out.id # EmptyID
        /\ conn[c].cur = "request"

\* ------------------------------------------------------------------- C12
\* the handler's step for a message of unknown type: an error reply, and nothing
\* else about the connection, the registries or the sessions changes
C12_UnknownStep ==
    \A c \in Conns :
        (conn[c].pc = "dispatch" /\ conn[c].cur = "bogus" /\ conn'[c].pc # "dispatch")
            => /\ conn'[c].out.type = "error"
               /\ conn'[c].pc = IF conn'[c].out.ok THEN "loop" ELSE "errreply"
               /\ conn'[c].sessionID = conn[c].sessionID
               /\ conn'[c].closed = conn[c].closed
               /\ UNCHANGED <<connections, sessionConns, sessions, objs>>

\* after the reply the read pump goes back to reading, unless the connection
\* was closed or its context cancelled meanwhile
C12_NextStep ==
    \A c \in Conns :
        (/\ conn[c].pc = "loop" /\ conn[c].cur = "bogus"
         /\ ~conn[c].ctxDone /\ ~conn[c].closed
         /\ conn'[c].pc # "loop")
            => conn'[c].pc = "read" /\ conn'[c].sessionID = conn[c].sessionID

\* C12: a message whose type is outside the closed set of client message types
\* is answered with an error message and does not close the connection: it
\* stays open and registered, keeps its session binding, and the read pump goes
\* on to read the next message.
C12_UnknownTypeKeepsConnection == [][C12_UnknownStep /\ C12_NextStep]_vars

\* a bound connection has answered a message of unknown type with an error and
\* is still open, registered and filed under its session
C12_Witness ==
    \E c \in Conns :
        /\ conn[c].pc = "loop" /\ conn[c].cur = "bogus"
        /\ conn[c].out.type = "error" /\ conn[c].out.ok
        /\ ~conn[c].closed /\ c \in connections
        /\ conn[c].sessionID \in DOMAIN sessionConns
        /\ sessionConns[conn[c].sessionID] = c
        /\ conn[c].sessionID \in DOMAIN sessions

\* ------------------------------------------------------------------- C13
\* the accept, from the upgrade to the connection's registration
C13_AcceptStep ==
    \A c \in Conns :
        (conn[c].pc \in {"upgrade", "start"} /\ conn'[c].pc # conn[c].pc)
            => /\ conn'[c].sessionID = EmptyID
               /\ UNCHANGED <<sessions, objs, sessionConns>>

\* an unbound connection becomes bound only in handleCreateSession, after the
\* controller's create succeeded, and to the session that create made
C13_BindStep ==
    \A c \in Conns :
        /\ (conn[c].sessionID = EmptyID /\ conn'[c].sessionID # EmptyID)
              => /\ conn[c].pc = "create2" /\ conn[c].cur = "create_session"
                 /\ conn'[c].sessionID = conn[c].sid
        /\ (conn[c].pc # "create2" /\ conn'[c].pc = "create2")
              => /\ conn[c].cur = "create_session"
                 /\ conn'[c].sid \notin DOMAIN sessions
                 /\ conn'[c].sid \in DOMAIN sessions'

C14_ReadSideWrite(c) ==
    /\ conn[c].pc \in {"dispatch", "exec", "create3", "delete3", "errreply"}
    /\ conn'[c].pc \in {"loop", "errreply", "closing"}
    /\ conn'[c].pc # conn[c].pc
    /\ ~conn[c].closed

\* C14: at most one write into a connection's socket is in progress at any
\* time: no reply of a handler or of the read pump is written while the write
\* pump's close frame is being written.
C14_SingleSocketWriter ==
    [][\A c \in Conns : conn[c].wp = "ctxwrite" => ~C14_ReadSideWrite(c)]_vars

\* ------------------------------------------------------------------- C15
\* closes counts how often closeChan and the socket were closed
C15_ClosedOnce ==
    \A c \in Conns : conn[c].closes <= 1 /\ (conn[c].closed <=> conn[c].closes = 1)

C15_NeverReopened == \A c \in Conns : conn[c].closed => conn'[c].closed

\* C15: Close is idempotent under any number of repeated or concurrent calls
\* (the read pump's exit, RemoveConnection, CloseAll): the closed flag goes from
\* false to true once and never back, the close channel and the socket are
\* closed exactly once, and a later call changes nothing.
C15_CloseIdempotent == []C15_ClosedOnce /\ [][C15_NeverReopened]_vars

\* CloseAll closed the connection and took it out of the maps, and the read
\* pump's deferred Close has run as well
C15_Witness ==
    \E c \in Conns :
        /\ conn[c].pc = "remove" /\ c \notin connections
        /\ conn[c].closed /\ conn[c].closes = 1

\* ------------------------------------------------------------------- C16
\* an engine session that was registered and is no longer in the map is closed
C16_RemovedIsClosed ==
    \A o \in Handles :
        (objs[o].made /\ o \notin Range(sessions)) => objs[o].closes >= 1

\* the step that takes an entry out of the map is the step that closes its session
C16_RemoveStep ==
    \A id \in DOMAIN sessions :
        (id \notin DOMAIN sessions' \/ sessions'[id] # sessions[id])
            => /\ objs[sessions[id]].closes = 0
               /\ objs'[sessions[id]].closes = 1

\* a create succeeds on an ID only when no unclosed session is left from it
C16_ReuseStep ==
    \A id \in IDs :
        (id \notin DOMAIN sessions /\ id \in DOMAIN sessions')
            => \A o \in Handles \ {sessions'[id]} :
                   (objs[o].made /\ o \notin Range(sessions')) => objs[o].closes >= 1

\* C16: DeleteSession closes the engine session before the map entry is gone
\* and before it returns, so an ID is free for reuse only once its resources
\* are released: no create with the same ID succeeds while the previous session
\* under that ID is unclosed.
C16_DeleteClosesBeforeReuse ==
    []C16_RemovedIsClosed /\ [][C16_RemoveStep /\ C16_ReuseStep]_vars

\* an ID was created, deleted and created again: the first session is closed,
\* the second is the one in the map
C16_Witness ==
    \E r1 \in Reqs, r2 \in Reqs :
        /\ r1 # r2
        /\ req[r1].pc = "done" /\ req[r1].op = "create" /\ req[r1].sid # EmptyID
        /\ req[r2].pc = "done" /\ req[r2].op = "create" /\ req[r2].sid = req[r1].sid
        /\ req[r1].sid \in DOMAIN sessions
        /\ sessions[req[r1].sid] = NewSession(r2)
        /\ objs[NewSession(r1)].closes = 1 /\ objs[NewSession(r2)].closes = 0

\* ------------------------------------------------------------------- C17
\* no session is closed twice, by the sweep, by a delete, or by one of each
C17_ClosedAtMostOnce == \A o \in Handles : objs[o].closes <= 1

\* the sweep: every session of the registry is closed and the registry is empty
C17_SweepStep ==
    (server = "shutdown" /\ server' = "cleaned")
        => /\ sessions' = <<>>
           /\ \A o \in Range(sessions) : objs'[o].closes = 1
           /\ \A o \in Handles : objs'[o].made => objs'[o].closes = 1

\* C17: CleanupSessions closes every session in the registry and leaves the
\* registry empty, and under any interleaving with concurrent DeleteSession
\* calls each session is closed at most once, never by both the sweep and a
\* delete.
C17_CleanupClosesEachOnce == []C17_ClosedAtMostOnce /\ [][C17_SweepStep]_vars

\* the sweep has closed the temporary session of a stateless request that is
\* still in flight, with its deferred DeleteSession yet to run
C17_Witness ==
    \E r \in Reqs :
        /\ server = "cleaned" /\ sessions = <<>>
        /\ req[r].pc = "deferred"
        /\ objs[req[r].obj].made /\ objs[req[r].obj].closes = 1

\* ------------------------------------------------------------------- C18
\* every session in the map, and every session a request got from a lookup, is
\* one whose construction and configuration were completed
C18_PublishedIsConfigured ==
    /\ \A id \in DOMAIN sessions : objs[sessions[id]].made
    /\ \A r \in Reqs : req[r].pc = "exec" => objs[req[r].obj].made

\* a create whose configuration is rejected returns an error and changes nothing
C18_FailedCreateStep ==
    \A r \in Reqs :
        (HandlerStep(r, "create") /\ req'[r].err = "failed to set proxy")
            => /\ UNCHANGED <<sessions, objs>>
               /\ req'[r].status = StatusInternalServerError
               /\ req'[r].sid = EmptyID

\* C18: a session is visible through get, list or a by-ID operation only after
\* its whole configuration has been applied: nobody observes a session that is
\* in the map and not fully configured, and when applying the configuration
\* fails (proxy rejected) the create returns an error and leaves the registry
\* unchanged.
C18_PublishAfterConfigure == []C18_PublishedIsConfigured /\ [][C18_FailedCreateStep]_vars

\* one create was refused for its proxy, another session is registered and a
\* request is running on it
C18_Witness ==
    \E r1 \in Reqs, r2 \in Reqs :
        /\ req[r1].pc = "done" /\ req[r1].op = "create"
        /\ req[r1].err = "failed to set proxy"
        /\ ~objs[NewSession(r1)].made
        /\ req[r2].pc = "exec" /\ req[r2].op = "request"
        /\ req[r2].obj \in Range(sessions)

\* ------------------------------------------------------------------- C19
\* C19: a change of a connection's session binding and the matching update of
\* the Connection Registry are one critical section: in every state, each entry
\* sessionID -> conn of the session-keyed map has conn in the connection-keyed
\* map and conn bound to that sessionID.
C19_MapsAgreeWithBinding ==
    \A sid \in DOMAIN sessionConns :
        /\ sessionConns[sid] \in connections
        /\ conn[sessionConns[sid]].sessionID = sid

\* ------------------------------------------------------------------- C20
\* C20: Server.Stop cancels a context shared with every open WebSocket
\* connection: once the server has been stopped, the context of every
\* connection whose pumps are running is cancelled, so that its write pump
\* takes the ctx.Done() branch and the connection goes on to Closed.
C20_StopCancelsConnections ==
    server # "running"
        => \A c \in Conns : (conn[c].wp = "run" /\ ~conn[c].closed) => conn[c].ctxDone

\* ------------------------------------------------------------------- C21
\* A step that changes the session map is a critical section of the Session
\* Registry's lock.  The one that may close an engine session inside it is
\* DeleteSession; the sweep belongs to the server's shutdown.
C21_EngineCloseStep ==
    \A o \in Handles :
        objs'[o].closes > objs[o].closes => server' = server

\* A step that changes the connection maps is a critical section of the
\* Connection Registry's lock; no socket is closed inside it.
C21_SocketCloseStep ==
    \A c \in Conns :
        conn'[c].closes > conn[c].closes => UNCHANGED <<connections, sessionConns>>

\* C21: no Session Registry or Connection Registry operation makes a blocking
\* external call (engine configure or close, socket close or write) while it
\* holds the registry's lock, except DeleteSession's engine close.
C21_NoBlockingCallUnderLock == [][C21_EngineCloseStep /\ C21_SocketCloseStep]_vars

\* ------------------------------------------------------------------- C22
\* C22: a panic raised while one REST request or one WebSocket message is
\* handled is caught by the recovery boundary of that request or connection:
\* the process keeps running, whatever has panicked.
C22_PanicContained == server # "crashed"

\* ------------------------------------------------------------------- C23
\* C23: a REST request whose Content-Type is not a supported type is answered
\* 415 and one whose body is malformed JSON is answered 400.
C23_BodyErrorStatus ==
    \A r \in Reqs :
        (req[r].pc = "done" /\ req[r].op = "badbody")
            => req[r].status = IF req[r].err = "unsupported media type"
                               THEN StatusUnsupportedMediaType
                               ELSE StatusBadRequest

\* ------------------------------------------------------------------- C24
\* a finished session or stateless request: 500 exactly when the response's
\* error field is set, 200 otherwise
C24_RestData ==
    \A r \in Reqs :
        (req[r].pc = "done" /\ req[r].op \in {"request", "stateless"})
            => req[r].status = IF req[r].err # "" THEN StatusInternalServerError
                               ELSE StatusOK

\* a session request ends in one step out of the lookup or the execution, is
\* not run again, and leaves the registry as it was
C24_RestStep ==
    \A r \in Reqs :
        /\ (req[r].pc \in {"handler", "exec"} /\ req'[r].pc = "done"
            /\ req'[r].op = "request")
              => UNCHANGED <<sessions, objs>>
        /\ req[r].pc = "exec" => req'[r].pc \in {"exec", "done", "deferred"}

\* the handler's reply to a `request` message: of type error exactly when the
\* error text is set, with the message's ID, and nothing else changed
C24_WsStep ==
    \A c \in Conns :
        /\ (conn[c].cur = "request" /\ conn[c].pc \in {"dispatch", "exec"}
            /\ conn'[c].pc \in {"loop", "errreply"})
              => /\ conn'[c].out.type = IF conn'[c].err # "" THEN "error" ELSE "response"
                 /\ conn'[c].out.id = conn[c].mid
                 /\ UNCHANGED <<sessions, objs, connections, sessionConns>>
        /\ conn[c].pc = "exec" => conn'[c].pc \in {"exec", "loop", "errreply", "panic"}

C25_GateWrapsRestOnly ==
    /\ \A c \in Conns : conn[c].pc # "rejected"
    /\ semaphore = Cardinality(InFlight)

\* ------------------------------------------------------------------- C26
\* a step in which the read pump's side writes a reply for the current message:
\* the handler's reply, or the pump's error message after a failed one
C26_ReplyStep(c) ==
    /\ conn[c].pc \in {"dispatch", "exec", "create3", "delete3", "errreply"}
    /\ conn'[c].pc \in {"loop", "errreply", "closing"}
    /\ conn'[c].pc # conn[c].pc

\* no reply is written for a message that already has a written one; a written
\* reply sends the pump back to its loop, a failed one to its error message or out
C26_OnceStep ==
    \A c \in Conns :
        C26_ReplyStep(c)
            => /\ ~conn[c].out.ok
               /\ conn'[c].pc = "loop" <=> conn'[c].out.ok

\* a message is read only when nothing of the previous one is left to do
C26_ReadStep ==
    \A c \in Conns :
        (conn[c].pc # "dispatch" /\ conn'[c].pc = "dispatch")
            => /\ conn[c].pc = "read"
               /\ conn[c].cur = "" /\ conn[c].out = NoReply
               /\ nread' = nread + 1

\* once the handler of a message has returned and the pump loops, the message
\* has its one written reply
C26_Handled ==
    \A c \in Conns :
        (conn[c].pc = "loop" /\ conn[c].cur \notin {"", "pong"})
            => conn[c].out.ok /\ conn[c].out.type # ""

\* C26: the messages of one connection are handled strictly in arrival order,
\* the handler of one returning before the next is read, and for every inbound
\* message other than a pong at most one reply is successfully written, exactly
\* one when the socket's writes succeed.
C26_InOrderOneReply == []C26_Handled /\ [][C26_OnceStep /\ C26_ReadStep]_vars

\* the second message of a connection has been handled and answered
C26_Witness ==
    \E c \in Conns :
        /\ nread = 2 /\ conn[c].pc = "loop"
        /\ conn[c].cur = "request" /\ conn[c].out.ok
        /\ conn[c].sessionID # EmptyID

\* ------------------------------------------------------------------- C27
\* the handler's step for a ping: a pong with the ping's ID, nothing else changed
C27_PingStep ==
    \A c \in Conns :
        (conn[c].pc = "dispatch" /\ conn[c].cur = "ping" /\ conn'[c].pc # "dispatch")
            => /\ conn'[c].out.type = "pong"
               /\ conn'[c].out.id = conn[c].mid
               /\ conn'[c].pc = IF conn'[c].out.ok THEN "loop" ELSE "errreply"
               /\ conn'[c].sessionID = conn[c].sessionID
               /\ UNCHANGED <<sessions, objs, connections, sessionConns>>

\* whatever else is written for a ping is the pump's error message after the
\* pong could not be written
C27_OnePong ==
    \A c \in Conns :
        (conn[c].cur = "ping" /\ conn[c].pc # "dispatch" /\ conn'[c].out # conn[c].out
         /\ conn'[c].out.type # "")
            => /\ conn[c].pc = "errreply" /\ ~conn[c].out.ok
               /\ conn'[c].out.type = "error"

\* C27: a ping sent by the client is answered with exactly one pong that
\* carries the ping's ID, whether or not the connection has a bound session,
\* and the session binding and both registries stay as they are.
C27_PingAnswered == [][C27_PingStep /\ C27_OnePong]_vars

\* a connection without a session has answered a ping that had an ID
C27_Witness ==
    \E c \in Conns :
        /\ conn[c].pc = "loop" /\ conn[c].cur = "ping"
        /\ conn[c].out.type = "pong" /\ conn[c].out.ok /\ conn[c].out.id # EmptyID
        /\ conn[c].sessionID = EmptyID

\* ------------------------------------------------------------------- C28
\* C28: the cookie same-site mapping is total: code 1 becomes Default, 2 Lax,
\* 3 Strict and 4 None, and every other code (0, negative, above 4) becomes the
\* empty string, without failing.
C28_SameSiteTotal ==
    \A i \in 1..Len(adapter.out) :
        LET code == adapter.cookies[i]
        IN adapter.out[i] = IF code = 1 THEN "Default"
                            ELSE IF code = 2 THEN "Lax"
                            ELSE IF code = 3 THEN "Strict"
                            ELSE IF code = 4 THEN "None"
                            ELSE ""

\* a response with a cookie of mode None and one with a negative code has been
\* converted to the end
C28_Witness ==
    /\ Len(adapter.cookies) = 2 /\ Len(adapter.out) = 2
    /\ adapter.cookies[1] = 4 /\ adapter.cookies[2] < 0
    /\ adapter.out = <<"None", "">>

\* ------------------------------------------------------------------- C29
\* C29: sessions are cleaned up on server shutdown: once the sweep that follows
\* Server.Stop and the HTTP server's shutdown has run, the registry is empty
\* and stays empty; no session is created or survives after the sweep.
C29_EmptyAfterSweep == server = "cleaned" => sessions = <<>>

\* ------------------------------------------------------------------- C30
\* a pong that was read is in no handler and has no reply
C30_Discarded ==
    \A c \in Conns :
        conn[c].cur = "pong"
            => conn[c].pc = "loop" /\ conn[c].out = NoReply

\* reading a pong changes no binding and no registry
C30_ReadStep ==
    \A c \in Conns :
        (conn[c].cur # "pong" /\ conn'[c].cur = "pong")
            => /\ conn[c].pc = "read"
               /\ conn'[c].sessionID = conn[c].sessionID
               /\ conn'[c].closed = conn[c].closed
               /\ UNCHANGED <<sessions, objs, connections, sessionConns>>

\* C30: an inbound message of type pong is silently discarded by the read
\* pump: it is never passed to the message handler, produces no reply and
\* changes neither the session binding nor either registry.
C30_PongDiscarded == []C30_Discarded /\ [][C30_ReadStep]_vars

\* a pong was read on a bound, registered connection and the pump is back at
\* the top of its loop
C30_Witness ==
    \E c \in Conns :
        /\ conn[c].cur = "pong" /\ conn[c].pc = "loop"
        /\ conn[c].sessionID # EmptyID /\ c \in connections
        /\ conn[c].sessionID \in DOMAIN sessionConns

\* ------------------------------------------------------------------- C31
\* how the write pump leaves its loop on a closed connection: through the
\* CloseChan branch, or through a ping that WriteJSON refuses
C31_ExitStep ==
    \A c \in Conns :
        (conn[c].closed /\ conn[c].wp = "run" /\ conn'[c].wp # "run")
            => conn'[c].wp \in {"closed", "failed"}

\* WriteJSON on a closed connection fails whatever the socket would do
C31_WriteRefused ==
    \A c \in Conns : \A sockOK \in BOOLEAN : conn[c].closed => ~WriteJSON(conn[c], sockOK)

\* C31: once a connection's close signal has fired the write pump exits
\* without sending further data: after the close it writes no heartbeat ping
\* and starts no close-handshake frame, and WriteJSON on the closed connection
\* returns an error without touching the socket.
C31_NoWriteAfterClose == []C31_WriteRefused /\ [][C31_ExitStep]_vars

\* ------------------------------------------------------------------- C32
\* C32: the exit of either pump sets off the teardown of the connection: once
\* the write pump has stopped because a heartbeat could not be sent, the
\* connection is eventually closed, removed from the Connection Registry and
\* its bound session deleted (unless the process has ended before).
C32_WritePumpExitTearsDown ==
    \A c \in Conns :
        (conn[c].wp = "failed") ~> (conn[c].pc = "done" \/ ~Alive(server))

\* ------------------------------------------------------------------- C33
\* the logical request being executed sets the text body and the base64 body
C33_BothBodies == adapter.pc # "idle" /\ adapter.body # "" /\ adapter.bodyB64 # "nil"

\* such a request has met no engine call and is either not yet looked at or
\* answered with the error
C33_Rejected ==
    C33_BothBodies
        => /\ adapter.calls = 0 /\ adapter.sent = ""
           /\ adapter.pc \in {"start", "returned"}
           /\ adapter.pc = "returned"
                 => /\ adapter.err = "Both body and body_b64 cannot be set"
                    /\ ~adapter.status

\* no step of its execution touches the session
C33_SessionStep ==
    C33_BothBodies
        => /\ adapter'.proxy = adapter.proxy
           /\ adapter'.browser = adapter.browser

\* C33: a logical request that sets both the text body and the base64 body is
\* rejected with an error response before any engine call: the engine is not
\* invoked and the session's proxy and browser are left as they were.
C33_BothBodiesRejected == []C33_Rejected /\ [][C33_SessionStep]_vars

\* a request with both bodies, whose options name another proxy and another
\* browser than the session's, has been answered with the error
C33_Witness ==
    /\ C33_BothBodies /\ adapter.pc = "returned"
    /\ adapter.err = "Both body and body_b64 cannot be set"
    /\ adapter.optProxy # "" /\ adapter.optProxy # adapter.proxy
    /\ adapter.optBrowser # "" /\ adapter.optBrowser # adapter.browser

\* ------------------------------------------------------------------- C34
\* the logical request being executed brings an ordered header list and an
\* unordered header map
C34_BothHeaderSets == adapter.pc # "idle" /\ adapter.ordered > 0 /\ Len(adapter.keys) > 0

\* C34: a logical request that supplies both an ordered header list and an
\* unordered header map is rejected with an error and is not executed: no
\* header set of it is handed to the engine, the engine is not called, and
\* once it has returned its response carries the error.
C34_BothHeaderSetsRejected ==
    C34_BothHeaderSets
        => /\ adapter.calls = 0 /\ adapter.sent = ""
           /\ adapter.pc = "returned" => adapter.err # ""

\* ------------------------------------------------------------------- C35
\* the engine has answered and the normalised response has been returned
C35_Succeeded == adapter.pc = "returned" /\ adapter.calls = 1 /\ adapter.err = ""

\* C35: for every successful engine execution the normalised response carries
\* the status, the response headers, the body (as text, or base64-encoded when
\* it is binary) and every cookie, whether the body is text, binary or absent.
C35_ResponseComplete ==
    C35_Succeeded
        => /\ adapter.status
           /\ adapter.outBody = (IF adapter.resp.body = "text" THEN "text" ELSE "")
           /\ adapter.outB64 = (adapter.resp.body = "binary")
           /\ adapter.outHeaders = adapter.resp.hasHeader
           /\ Len(adapter.out) = Len(adapter.resp.cookies)

\* ------------------------------------------------------------------- C36
\* the handler's first step for a delete_session: refused with an error and
\* nothing changed on an unbound connection; on a bound connection whose
\* session is registered, that session's entry removed and its object closed
C36_DeleteStep ==
    \A c \in Conns :
        (conn[c].pc = "dispatch" /\ conn[c].cur = "delete_session"
         /\ conn'[c].pc # "dispatch")
            => /\ conn[c].sessionID = EmptyID
                    => /\ conn'[c].out.type = "error"
                       /\ conn'[c].out.id = conn[c].mid
                       /\ conn'[c].sessionID = EmptyID
                       /\ UNCHANGED <<sessions, objs, connections, sessionConns>>
               /\ conn[c].sessionID \in DOMAIN sessions
                    => /\ conn'[c].pc = "delete2"
                       /\ sessions' = MapDelete(sessions, conn[c].sessionID)
                       /\ objs' = CloseObj(objs, sessions[conn[c].sessionID])

\* the handler's next steps: the binding is cleared, then the session-keyed
\* entry is removed and the success response written with the message's ID
C36_UnbindStep ==
    \A c \in Conns :
        /\ (conn[c].pc = "delete2" /\ conn'[c].pc # "delete2")
              => conn'[c].pc = "delete3" /\ conn'[c].sessionID = EmptyID
        /\ (conn[c].pc = "delete3" /\ conn'[c].pc # "delete3")
              => /\ conn[c].old \notin DOMAIN sessionConns'
                 /\ conn'[c].sessionID = EmptyID
                 /\ conn'[c].out.type = "response"
                 /\ conn'[c].out.id = conn[c].mid

\* an unbound connection stays unbound until a create_session has succeeded,
\* and until then every request on it is answered with an error
C36_UnboundStep ==
    \A c \in Conns :
        /\ (conn[c].sessionID = EmptyID /\ conn'[c].sessionID # EmptyID)
              => conn[c].pc = "create2" /\ conn'[c].sessionID = conn[c].sid
        /\ (conn[c].sessionID = EmptyID /\ conn[c].pc = "dispatch"
            /\ conn[c].cur = "request" /\ conn'[c].pc # "dispatch")
              => conn'[c].out.type = "error" /\ conn'[c].pc # "exec"

\* C36: a delete_session on a bound connection whose session exists deletes
\* that session from the Session Registry, clears the connection's binding,
\* removes its session-keyed registry entry and replies with a success
\* response; on an unbound connection it replies with an error and changes
\* nothing.  After a successful delete_session a request on that connection
\* yields an error until a new create_session succeeds.
C36_DeleteSessionUnbinds == [][C36_DeleteStep /\ C36_UnbindStep /\ C36_UnboundStep]_vars

\* create_session, delete_session and request were sent in this order, with no
\* REST request and no CloseAll beside them: the session is closed and gone, the
\* connection is unbound and the request has been answered with an error
C36_Witness ==
    \E c \in Conns :
        /\ nread = 3 /\ conn[c].cur = "request" /\ conn[c].pc = "loop"
        /\ conn[c].out.type = "error" /\ conn[c].out.ok
        /\ conn[c].err = "session ID required"
        /\ conn[c].sessionID = EmptyID /\ c \in connections /\ ~conn[c].closed
        /\ sessions = <<>> /\ sessionConns = <<>>
        /\ objs[NumReqs + 1].made /\ objs[NumReqs + 1].closes = 1
        /\ \A r \in Reqs : req[r].pc \in {"new", "absent"}

\* ------------------------------------------------------------------- C37
\* C37: no session created through a WebSocket create_session is orphaned: in
\* every state each such session still in the Session Registry is the bound
\* session of a connection that is still being served (or is just being bound
\* by the create_session that built it), so that once a connection's handler
\* has finished none of the sessions it created remains in the registry.
C37_NoOrphanSession ==
    \A id \in DOMAIN sessions :
        sessions[id] \in WsHandles
            => \E c \in Conns :
                  /\ conn[c].pc \notin {"absent", "done"}
                  /\ \/ conn[c].sessionID = id
                     \/ conn[c].pc = "create2" /\ conn[c].sid = id

\* ------------------------------------------------------------------- C38
\* C38: whenever a WebSocket connection that is being served has a non-empty
\* bound session ID, that session is in the Session Registry (the handler of a
\* delete_session that has deleted it and is about to clear the binding apart).
C38_BoundSessionExists ==
    \A c \in Conns :
        (conn[c].sessionID # EmptyID /\ conn[c].pc \notin {"absent", "done", "delete2"})
            => conn[c].sessionID \in DOMAIN sessions

\* ------------------------------------------------------------------- C39
\* the step of REST request r in which session.Do runs: the execution ends
\* otherwise than by a refusal of the request's shape
C39_RestEngineCall(r) ==
    /\ req[r].pc = "exec" /\ req'[r].pc # "exec"
    /\ req'[r].err # "invalid request"

\* the same step of a request message on connection c
C39_WsEngineCall(c) ==
    /\ conn[c].pc = "exec" /\ conn'[c].pc # "exec"
    /\ conn'[c].err # "invalid request"

\* C39: no request is executed against a session that has been closed: when
\* the engine is called for a REST or WebSocket request, the session object
\* that the lookup returned has not been closed by a DeleteSession or by
\* CleanupSessions.
C39_NoCallOnClosedSession ==
    [][/\ \A r \in Reqs : C39_RestEngineCall(r) => objs[req[r].obj].closes = 0
       /\ \A c \in Conns : C39_WsEngineCall(c) => objs[conn[c].obj].closes = 0]_vars

\* ------------------------------------------------------------------- C40
\* the mutexes goroutine g holds
C40_Held(g) == {l \in Mutexes : locks.owner[l] = g}

\* goroutine g is at a Lock call on a mutex that is held
C40_Blocked(g) ==
    /\ locks.prog[g] # <<>>
    /\ Head(locks.prog[g]).call = "Lock"
    /\ locks.owner[Head(locks.prog[g]).mu] # NoOwner

C40_Blocker(g) == locks.owner[Head(locks.prog[g]).mu]

\* g waits for u, directly or through at most n goroutines that wait in turn
RECURSIVE C40_WaitsOn(_, _, _)
C40_WaitsOn(g, u, n) ==
    /\ n > 0
    /\ C40_Blocked(g)
    /\ \/ C40_Blocker(g) = u
       \/ C40_WaitsOn(C40_Blocker(g), u, n - 1)

\* no goroutine waits for itself, and while any goroutine has a call to make
\* one of them can make it
C40_Progress ==
    /\ \A g \in Goroutines : ~C40_WaitsOn(g, g, NumGoroutines)
    /\ (\E g \in Goroutines : locks.prog[g] # <<>>)
           => \E g \in Goroutines : locks.prog[g] # <<>> /\ ~C40_Blocked(g)

\* a registry lock is taken by a goroutine that holds no mutex, and a
\* connection's mutex by one that holds at most the Connection Registry lock
C40_LockOrder ==
    \A g \in Goroutines : \A l \in Mutexes :
        (locks.owner[l] # g /\ locks'.owner[l] = g)
            => IF l \in {SmMu, CmMu} THEN C40_Held(g) = {}
                                     ELSE C40_Held(g) \subseteq {CmMu}

\* C40: the locks of the gateway never deadlock: the Connection Registry lock,
\* the connections' mutexes and the Session Registry lock are acquired in one
\* order (registry lock before connection mutex, never the reverse, and the two
\* registries' locks never nested), so in every interleaving of handlers, pings,
\* RemoveConnection, CloseAll and Session Registry calls some goroutine can go on.
C40_NoDeadlock == []C40_Progress /\ [][C40_LockOrder]_vars

\* a goroutine inside RemoveConnection or CloseAll holds the Connection Registry
\* lock and waits for a connection's mutex that a handler or a ping holds
C40_Witness ==
    \E g \in Goroutines : \E u \in Goroutines \ {g} : \E c \in Conns :
        /\ C40_Held(g) = {CmMu}
        /\ C40_Blocked(g)
        /\ Head(locks.prog[g]).mu = ConnMu(c)
        /\ C40_Blocker(g) = u

====
